---------------------------- MODULE Spec2Model ----------------------------
(***************************************************************************)
(* Model of the Ivy integration of panther-serena:                         *)
(*   - the tool layer (src/src/serena/tools/ivy_tools.py): each tool's     *)
(*     apply(), which tries the language-server session first and falls    *)
(*     back to a child process or a filesystem scan;                       *)
(*   - the language-server session                                         *)
(*     (src/src/solidlsp/language_servers/ivy_language_server.py): the     *)
(*     start-up handshake and the diagnostics store with its lock.         *)
(* Text is modelled as sequences of lines, a line as a sequence of tokens  *)
(* (single characters, with the words "error" and "warning" as one token). *)
(* A Python dict is a function whose domain is the set of its keys.        *)
(***************************************************************************)
EXTENDS Integers, Sequences, FiniteSets, TLC

VARIABLES
    \* ---- one tool invocation (ivy_tools.py) ----
    pc,                \* position inside apply()
    tool,              \* which tool's apply() is running
    relative_path,     \* the relative_path argument (None for "no path")
    isolate,           \* the isolate argument
    target,            \* the target argument (compile only)
    max_answer_chars,  \* the max_answer_chars argument
    ivy_ls,            \* what _get_ivy_language_server returned: TRUE = a session
    onPath,            \* whether shutil.which finds the command-line tool
    request,           \* the custom request sent to the session
    command,           \* the command line composed on the direct path
    lspAttempt,        \* fate of the try block: "none", "returned" or the error
    child,             \* the finished child process (return_code, stdout, stderr)
    payload,           \* the result object built, before _limit_length
    ret,               \* what apply() returned or raised
    trace,             \* the externally visible steps of this invocation, in order
    \* ---- session start (ivy_language_server.py, _start_server) ----
    sessState,         \* lifecycle state of the session
    spc,               \* position inside _start_server
    handlers,          \* methods with a registered handler
    procStarted,       \* the companion process has been started
    capabilities,      \* the capabilities of the initialize response
    sent,              \* messages sent to the companion process, in order
    whichResult,       \* what shutil.which("ivy_lsp") answers (None: not found)
    launchCmd,         \* cmd of the ProcessLaunchInfo handed to the framework
    ctorRaised,        \* the exception __init__ raised (None: none)
    launched,          \* the executable the companion process was started from
    \* ---- diagnostics store (ivy_language_server.py) ----
    store,             \* _diagnostics_store: uri -> the list stored for it
    objs,              \* the diagnostic records notification n brought, as they are now
    notifs,            \* notifications delivered so far
    lock,              \* holder of _diagnostics_lock
    wpc,               \* position of the notification handler (the writer)
    wparams,           \* uri and diagnostics of the notification being handled
    wret,              \* how the last run of the handler ended
    rpc,               \* position of each reader thread
    rarg,              \* the uri a reader asked for (None for all)
    rleft,             \* the uris a reader has still to copy
    rres,              \* the value a reader is building / holds
    snap,              \* per reader: the contents of the store when it took the lock
    published,         \* per uri: the last valid notification for it (0: none)
    \* ---- one call of _parse_ivy_check_output (ivy_tools.py) ----
    ppc,               \* position of the caller of the parser
    pdesc,             \* what each line of the text was written from
    ptext,             \* the output argument, as its lines
    pres,              \* the list the parser returned
    \* ---- one call of _check_structural_issues (ivy_tools.py) ----
    scpc,              \* position of the caller of the scanner
    source,            \* the source argument, as source.split("\n")
    scanDiags,         \* the list the scanner returned
    \* ---- one call of IvyIncludeGraphTool._apply_via_filesystem ----
    gpc,               \* position of the caller of the filesystem scan
    gproject,          \* the files under the project root: path -> file
    gpath,             \* the relative_path argument (None for the whole project)
    gres,              \* the object the scan returned
    \* ---- several IvyLanguageServer instances (ivy_language_server.py) ----
    istore,            \* the dict objects created by __init__: object -> contents
    ihandled,          \* per session: runs of its store_diagnostics handler so far
    iret,              \* what the last accessor call returned, and to whom
    \* ---- the while loop of _apply_via_filesystem (ivy_tools.py) ----
    tstack,            \* stack: the module names still to look at
    tseen,             \* transitive: the module names added so far
    texpanded          \* the module names that passed the "in transitive" test, in order

toolVars == <<pc, tool, relative_path, isolate, target, max_answer_chars, ivy_ls,
              onPath, request, command, lspAttempt, child, payload, ret, trace>>
sessVars == <<sessState, spc, handlers, procStarted, capabilities, sent,
              whichResult, launchCmd, ctorRaised, launched>>
cacheVars == <<store, objs, notifs, lock, wpc, wparams, wret, rpc, rarg, rleft,
               rres, snap, published>>
parseVars == <<ppc, pdesc, ptext, pres>>
scanVars == <<scpc, source, scanDiags>>
graphVars == <<gpc, gproject, gpath, gres>>
instVars == <<istore, ihandled, iret>>
closureVars == <<tstack, tseen, texpanded>>
pureVars == <<parseVars, scanVars, graphVars, instVars, closureVars>>
vars == <<toolVars, sessVars, cacheVars, pureVars>>

None == "None"

(***************************************************************************)
(* Bounds of the model.                                                    *)
(***************************************************************************)
MaxLines == 2        \* lines of the captured stdout of a child process
MaxParseLines == 2   \* lines of a text handed to the parser on its own
MaxSourceLines == 3  \* lines of a document handed to the structural scanner
MaxFiles == 2        \* files of a project the include graph is built from
NumSessions == 2     \* IvyLanguageServer instances alive together
MaxInstNotifs == 3   \* notifications delivered to the instances in one run
SmallLimit == 10     \* the small max_answer_chars a caller may pass
TinyLimit == 1       \* a max_answer_chars below the size of every result
MaxCount == 1        \* largest diagnosticCount a response reports
MaxRequests == 2     \* custom requests sent on one session
MaxNotifs == 3       \* diagnostics notifications delivered in one run
MaxDiags == 1        \* diagnostics in one notification
NumReaders == 1      \* concurrent reader threads

(***************************************************************************)
(* Dict helpers.                                                           *)
(***************************************************************************)
Has(d, k) == k \in DOMAIN d
Get(d, k, default) == IF k \in DOMAIN d THEN d[k] ELSE default
Restrict(d, K) == [k \in K |-> d[k]]
EmptyDict == [k \in {} |-> None]
SeqsUpTo(S, n) == UNION {[1..m -> S] : m \in 0..n}

(***************************************************************************)
(* Text.                                                                   *)
(***************************************************************************)
Digits == {"0", "1", "2", "3", "4", "5", "6", "7", "8", "9"}
Whitespace == {" ", "\t"}
DigitVal(c) ==
    CASE c = "0" -> 0 [] c = "1" -> 1 [] c = "2" -> 2 [] c = "3" -> 3
      [] c = "4" -> 4 [] c = "5" -> 5 [] c = "6" -> 6 [] c = "7" -> 7
      [] c = "8" -> 8 [] c = "9" -> 9

\* int(m.group(2))
RECURSIVE IntOf(_)
IntOf(ds) ==
    IF ds = <<>> THEN 0
    ELSE 10 * IntOf(SubSeq(ds, 1, Len(ds) - 1)) + DigitVal(ds[Len(ds)])

\* first index >= i of line that holds no whitespace (Len(line)+1 if none): \s*
RECURSIVE SkipWs(_, _)
SkipWs(line, i) ==
    IF i <= Len(line) /\ line[i] \in Whitespace THEN SkipWs(line, i + 1) ELSE i

\* first index >= i of line that holds no digit: \d+ is line[i .. result-1]
RECURSIVE SkipDigits(_, _)
SkipDigits(line, i) ==
    IF i <= Len(line) /\ line[i] \in Digits THEN SkipDigits(line, i + 1) ELSE i

\* The regular expression (.*?):(\d+):\s*(error|warning):\s*(.*) with the
\* first group ending just before index i: the rest of the pattern matches
\* from the colon at i.
MatchesFrom(line, i) ==
    /\ i <= Len(line) /\ line[i] = ":"
    /\ LET j == SkipDigits(line, i + 1) IN
       /\ j > i + 1
       /\ j <= Len(line) /\ line[j] = ":"
       /\ LET k == SkipWs(line, j + 1) IN
          /\ k <= Len(line) /\ line[k] \in {"error", "warning"}
          /\ k + 1 <= Len(line) /\ line[k + 1] = ":"

\* re.match on one line: the lazy first group takes the shortest prefix.
MatchStarts(line) == {i \in 1..Len(line) : MatchesFrom(line, i)}
LineMatches(line) == MatchStarts(line) # {}
\* (mutant) the first group of the pattern is greedy: (.*) for (.*?)
LineRecordGreedy(line) ==
    LET i == CHOOSE x \in MatchStarts(line) : \A y \in MatchStarts(line) : x >= y
        j == SkipDigits(line, i + 1)
        k == SkipWs(line, j + 1)
        m == SkipWs(line, k + 2)
    IN [file |-> SubSeq(line, 1, i - 1),
        line |-> IntOf(SubSeq(line, i + 1, j - 1)),
        severity |-> line[k],
        message |-> SubSeq(line, m, Len(line))]

LineRecord(line) ==
    LET i == CHOOSE x \in MatchStarts(line) : \A y \in MatchStarts(line) : x <= y
        j == SkipDigits(line, i + 1)
        k == SkipWs(line, j + 1)
        m == SkipWs(line, k + 2)
    IN [file |-> SubSeq(line, 1, i - 1),
        line |-> IntOf(SubSeq(line, i + 1, j - 1)),
        severity |-> line[k],
        message |-> SubSeq(line, m, Len(line))]

\* _parse_ivy_check_output over the lines of the text
RECURSIVE _parse_ivy_check_output(_)
_parse_ivy_check_output(lines) ==
    IF lines = <<>> THEN <<>>
    ELSE (IF LineMatches(Head(lines)) THEN <<LineRecord(Head(lines))>> ELSE <<>>)
         \o _parse_ivy_check_output(Tail(lines))

CountSeverity(diags, s) == Cardinality({i \in 1..Len(diags) : diags[i].severity = s})

\* str.strip() of a text: whitespace and line breaks leave both ends
RECURSIVE LStrip(_)
LStrip(lines) ==
    IF lines = <<>> THEN <<>>
    ELSE IF Head(lines) = <<>> THEN LStrip(Tail(lines))
    ELSE IF Head(lines)[1] \in Whitespace
         THEN LStrip(<<Tail(Head(lines))>> \o Tail(lines))
    ELSE lines
Reverse(s) == [i \in 1..Len(s) |-> s[Len(s) + 1 - i]]
ReverseText(lines) == Reverse([i \in 1..Len(lines) |-> Reverse(lines[i])])
Strip(lines) == ReverseText(LStrip(ReverseText(LStrip(lines))))

\* The text the lines were split from: "\n".join(lines)
RECURSIVE JoinLines(_)
JoinLines(lines) ==
    IF lines = <<>> THEN <<>>
    ELSE IF Len(lines) = 1 THEN Head(lines)
    ELSE Head(lines) \o <<"\n">> \o JoinLines(Tail(lines))

\* \w+ takes one word; \s takes a blank, a tab or a line break
Words == {"include", "helper", "ghost", "a", "b", "c", "x"}
RegexSpace == Whitespace \cup {"\n"}
\* ^ with re.MULTILINE: the start of the text or just after a line break
AtLineStart(text, p) == p = 1 \/ text[p - 1] = "\n"
RECURSIVE SkipSpace(_, _)
SkipSpace(text, p) ==
    IF p <= Len(text) /\ text[p] \in RegexSpace THEN SkipSpace(text, p + 1) ELSE p
\* source[: match.start()].count("\n") + 1
LineOfOffset(text, p) == Cardinality({k \in 1..(p - 1) : text[k] = "\n"}) + 1

\* The matches of r"^include\s+(\w+)" with re.MULTILINE from offset p on:
\* the matches from left to right, none overlapping the one before it
RECURSIVE FindIncludes(_, _)
FindIncludes(text, p) ==
    IF p > Len(text) THEN <<>>
    ELSE LET q == SkipSpace(text, p + 1) IN
         IF /\ AtLineStart(text, p) /\ text[p] = "include"
            /\ q > p + 1
            /\ q <= Len(text) /\ text[q] \in Words
         THEN <<[start |-> p, name |-> text[q]]>> \o FindIncludes(text, q + 1)
         ELSE FindIncludes(text, p + 1)

\* re.findall(r"^include\s+(\w+)", source, re.MULTILINE)
IncludeNames(lines) ==
    LET ms == FindIncludes(JoinLines(lines), 1) IN [i \in 1..Len(ms) |-> ms[i].name]

\* The lines the model feeds to the parser.
ErrorLine == <<"a", ":", "1", "0", ":", " ", "error", ":", " ", "m">>
WarningLine == <<"b", ":", "2", ":", " ", "warning", ":", " ", "s">>
NoiseLine == <<"n", "o", "i", "s", "e">>
SampleLines == {ErrorLine, WarningLine, NoiseLine}
Outputs == SeqsUpTo(SampleLines, MaxLines)
StderrTexts == SeqsUpTo(SampleLines, 1)

(***************************************************************************)
(* The tool layer: inputs.                                                 *)
(***************************************************************************)
PathTools == {"verify", "compile", "showModel"}
\* IvyServerStatusTool, and IvyTestScopeTool with action "list" or "set"
StatusTools == {"serverStatus", "listTests", "setActiveTest"}
\* IvyIncludeGraphTool and IvyDiagnosticsTool take an optional path
Tools == PathTools \cup {"includeGraph", "diagnostics"} \cup StatusTools
ExistingFiles == {"model.ivy", "notes.py"}
Paths == {"model.ivy", "missing.ivy", "notes.py"}
Isolates == {None, "iso"}
Targets == {"test"}
Ceilings == {-1, SmallLimit, TinyLimit}
\* What send_custom_request can raise inside the try block: a failure of the
\* transport (broken pipe, timeout, unsupported method), or a ValueError,
\* which "except Exception" catches like any other exception.
TransportErrors == {"transport", "timeout", "unsupported"}
ValidationErrors == {"ValueError"}
RequestErrors == TransportErrors \cup ValidationErrors
AttemptErrors == RequestErrors \cup {"malformed"}

\* What send_custom_request can return: a JSON object with any of the keys
\* the tools read, or a JSON null.
ResponseKeys == {"output", "success", "diagnosticCount", "diagnostics"}
\* a structured list a response may supply; no line of the output parses to it
SuppliedDiagnostics ==
    <<[file |-> <<"s">>, line |-> 3, severity |-> "error", message |-> <<"x">>]>>
FullResponses == [output : SeqsUpTo(SampleLines, 1), success : BOOLEAN,
                  diagnosticCount : 0..MaxCount, diagnostics : {SuppliedDiagnostics}]
Responses == {[kind |-> "null"]} \cup
             {[kind |-> "dict", body |-> Restrict(full, K)] :
                 full \in FullResponses, K \in SUBSET ResponseKeys}

\* What execute_shell_command can return.
ChildResults == [return_code : {0, 1}, stdout : Outputs, stderr : StderrTexts]
NoChild == [return_code |-> 0, stdout |-> <<>>, stderr |-> <<>>]
NoRequest == [method |-> None, params |-> EmptyDict]

(***************************************************************************)
(* The tool layer: helpers.                                                *)
(***************************************************************************)
EndsWithIvy(p) == p \in {"model.ivy", "missing.ivy", "a.ivy", "b.ivy", "c.ivy"}
IsFile(p) == p \in ExistingFiles

\* (mutant) the check that the file exists is left out
ValidateExtensionOnly(p) ==
    IF ~EndsWithIvy(p) THEN "ValueError: Expected an .ivy file" ELSE None

\* _validate_ivy_path: the exception it raises, or None when it returns
_validate_ivy_path(p) ==
    IF ~EndsWithIvy(p) THEN "ValueError: Expected an .ivy file"
    ELSE IF ~IsFile(p) THEN "FileNotFoundError: Ivy file not found"
    ELSE None

\* (mutant) the answer of shutil.which is ignored
RequireIvyToolIgnored(found) == None

\* _require_ivy_tool: the exception it raises, or None when it returns
_require_ivy_tool(found) ==
    IF ~found THEN "FileNotFoundError: not installed or not on PATH" ELSE None

CliTool(t) ==
    CASE t = "verify" -> "ivy_check" [] t = "compile" -> "ivyc"
      [] t = "showModel" -> "ivy_show"
Method(t) ==
    CASE t = "verify" -> "ivy/verify" [] t = "compile" -> "ivy/compile"
      [] t = "showModel" -> "ivy/showModel" [] t = "includeGraph" -> "ivy/includeGraph"
      [] t = "serverStatus" -> "ivy/serverStatus" [] t = "listTests" -> "ivy/listTests"
      [] t = "setActiveTest" -> "ivy/setActiveTest"
      [] t = "diagnostics" -> "ivy/featureStatus"

\* The params of the custom request each tool builds.
RequestParams(t, p, iso, tgt) ==
    CASE t \in {"verify", "showModel"} ->
            IF iso # None THEN [uri |-> p, isolate |-> iso] ELSE [uri |-> p]
      [] t = "compile" -> [uri |-> p, target |-> tgt]
      [] t \in {"includeGraph", "serverStatus", "listTests", "diagnostics"} -> EmptyDict
      [] t = "setActiveTest" -> IF p # None THEN [testFile |-> p] ELSE EmptyDict

\* The command line each tool composes; every value goes through shlex.quote.
Quoted(s) == [quoted |-> TRUE, value |-> s]
ComposeCommand(t, p, iso, tgt) ==
    <<CliTool(t)>>
    \o (IF t = "compile" THEN <<[flag |-> "target", arg |-> Quoted(tgt)]>> ELSE <<>>)
    \o (IF iso # None THEN <<[flag |-> "isolate", arg |-> Quoted(iso)]>> ELSE <<>>)
    \o <<[flag |-> None, arg |-> Quoted(p)]>>

\* raw_output = result.stdout + "\n" + (result.stderr or ""): every line of
\* stdout ends with a line break, so an empty line separates the two streams.
RawOutput(c) == c.stdout \o << <<>> >> \o c.stderr

\* IvyCheckTool._apply_via_lsp after the response has arrived: it raises on
\* a response that is no dict (resp.get), else normalises.
ApplyViaLspRaises(resp) == resp.kind # "dict"
ApplyViaLsp(resp) ==
    LET output_lines == Get(resp.body, "output", <<>>)
        diagnostics == _parse_ivy_check_output(output_lines)
    IN [success |-> Get(resp.body, "success", FALSE),
        diagnostics |-> diagnostics,
        diagnostic_count |-> Get(resp.body, "diagnosticCount", Len(diagnostics)),
        error_count |-> CountSeverity(diagnostics, "error"),
        warning_count |-> CountSeverity(diagnostics, "warning"),
        raw_output |-> Strip(output_lines),
        duration_seconds |-> 0,
        isolate |-> Get(resp.body, "isolate", None),
        via |-> "lsp"]

\* resp["via"] = "lsp" of the compile and show-model tools
TagLspRaises(resp) == resp.kind # "dict"
TagLsp(resp) == [k \in DOMAIN resp.body \cup {"via"} |->
                    IF k = "via" THEN "lsp" ELSE resp.body[k]]

\* IvyIncludeGraphTool._apply_via_lsp after the response has arrived
GraphViaLspRaises(resp) == resp.kind # "dict"
GraphViaLsp(resp) ==
    [files |-> EmptyDict, total_files |-> 0, total_include_edges |-> 0, via |-> "lsp"]

\* (mutant) the response is passed on as it came
TagServerActiveMissing(resp) == resp.body

\* status["server_active"] = True / resp["server_active"] = True of the
\* server-status and test-scope tools
TagServerActiveRaises(resp) == resp.kind # "dict"
TagServerActive(resp) == [k \in DOMAIN resp.body \cup {"server_active"} |->
                             IF k = "server_active" THEN TRUE ELSE resp.body[k]]

\* The error object of the server-status and test-scope tools: without a
\* session, or with the exception e the request raised.
ErrorObject(ls, e) ==
    IF ls THEN [server_active |-> TRUE, error |-> e]
    ELSE [server_active |-> FALSE, error |-> "Ivy language server is not running"]

\* (mutant) the marker is attached to every failed run
ParseWarningOnFailure(c, diagnostics) == c.return_code # 0

\* IvyCheckTool._apply_via_cli after the child process has exited
ParseWarningDue(c, diagnostics) == c.return_code # 0 /\ Len(diagnostics) = 0
ApplyViaCli(c) ==
    LET raw_output == RawOutput(c)
        diagnostics == _parse_ivy_check_output(raw_output)
        base == [success |-> c.return_code = 0,
                 diagnostics |-> diagnostics,
                 diagnostic_count |-> Len(diagnostics),
                 error_count |-> CountSeverity(diagnostics, "error"),
                 warning_count |-> CountSeverity(diagnostics, "warning"),
                 raw_output |-> Strip(raw_output),
                 return_code |-> c.return_code,
                 duration_seconds |-> 0,
                 via |-> "cli"]
    IN IF ParseWarningDue(c, diagnostics)
       THEN [k \in DOMAIN base \cup {"parse_warning"} |->
                IF k = "parse_warning" THEN "no structured diagnostics" ELSE base[k]]
       ELSE base

\* result.model_dump_json() of the compile and show-model tools
ShellResultDump(c) ==
    [stdout |-> c.stdout, stderr |-> c.stderr, return_code |-> c.return_code]

\* The result of the direct path of each tool, from the finished child.
DirectResult(t, c) == IF t = "verify" THEN ApplyViaCli(c) ELSE ShellResultDump(c)

\* feature_status = ivy_ls.send_custom_request("ivy/featureStatus"), kept
\* for the payload when it is not None
FeatureStatus(resp) ==
    IF resp.kind = "dict" THEN [featureStatus |-> resp.body] ELSE EmptyDict

\* The result of the session path of each tool, from the response.
SessionRaises(t, resp) ==
    CASE t = "verify" -> ApplyViaLspRaises(resp)
      [] t \in {"compile", "showModel"} -> TagLspRaises(resp)
      [] t = "includeGraph" -> GraphViaLspRaises(resp)
      [] t \in StatusTools -> TagServerActiveRaises(resp)
      [] t = "diagnostics" -> FALSE
SessionResult(t, resp) ==
    CASE t = "verify" -> ApplyViaLsp(resp)
      [] t \in {"compile", "showModel"} -> TagLsp(resp)
      [] t = "includeGraph" -> GraphViaLsp(resp)
      [] t \in StatusTools -> TagServerActive(resp)
      [] t = "diagnostics" -> FeatureStatus(resp)

\* IvyIncludeGraphTool._apply_via_filesystem.  The project is a function
\* from the paths of its files (all in the root directory) to files; a file
\* is readable with its text, or raises OSError when opened.  The walk stays
\* below MAX_IVY_FILES.
\* fname[:-4] / os.path.basename(relative_path) without a trailing ".ivy"
BaseName(f) ==
    CASE f = "a.ivy" -> "a" [] f = "b.ivy" -> "b" [] f = "c.ivy" -> "c"
      [] f = "model.ivy" -> "model" [] f = "missing.ivy" -> "missing"
      [] OTHER -> f
\* the files the walk does not skip: if not fname.endswith(".ivy"): continue
Walked(project) == {f \in DOMAIN project : EndsWithIvy(f)}
\* file_by_basename
FileByBasename(project) ==
    [mod \in {BaseName(f) : f \in Walked(project)} |->
        CHOOSE f \in Walked(project) : BaseName(f) = mod]
\* graph: the files that could be read, with the modules each includes
Graph(project) ==
    [f \in {g \in Walked(project) : project[g].readable} |->
        IncludeNames(project[f].lines)]
\* skipped_files, as the set of their paths
SkippedFiles(project) == {f \in Walked(project) : ~project[f].readable}

\* (mutant) a module is not expanded: only the file's own includes are kept
ExpandNothing(project, mod) == <<>>

\* mod_path = file_by_basename.get(mod); graph[mod_path] when it is in graph
Expand(project, mod) ==
    LET mod_path == Get(FileByBasename(project), mod, None) IN
    IF mod_path # None /\ mod_path \in DOMAIN Graph(project)
    THEN Graph(project)[mod_path] ELSE <<>>

\* while stack: mod = stack.pop(); ...
RECURSIVE Transitive(_, _, _)
Transitive(project, stack, seen) ==
    IF stack = <<>> THEN seen
    ELSE LET mod == stack[Len(stack)]
             rest == SubSeq(stack, 1, Len(stack) - 1)
         IN IF mod \in seen THEN Transitive(project, rest, seen)
            ELSE Transitive(project, rest \o Expand(project, mod), seen \cup {mod})

\* sorted(transitive)
ModuleOrder == <<"a", "b", "c", "ghost", "helper", "include", "x">>
Sorted(S) == SelectSeq(ModuleOrder, LAMBDA mod : mod \in S)
RangeOf(s) == {s[i] : i \in 1..Len(s)}
RECURSIVE SumOfLens(_, _)
SumOfLens(g, F) ==
    IF F = {} THEN 0
    ELSE LET f == CHOOSE x \in F : TRUE IN Len(g[f]) + SumOfLens(g, F \ {f})

\* file_by_basename.get(inc)
ResolvedPath(project, inc) == Get(FileByBasename(project), inc, None)

\* the object returned for one file, from the set the while loop ended with
PerFileResult(project, p, transitive) ==
    LET graph == Graph(project)
        includes == Get(graph, p, <<>>)
    IN [file |-> p,
        includes |-> [i \in 1..Len(includes) |->
                        [module |-> includes[i],
                         resolved_path |-> ResolvedPath(project, includes[i])]],
        included_by |-> {fp \in DOMAIN graph : BaseName(p) \in RangeOf(graph[fp])},
        transitive_includes |-> Sorted(transitive),
        transitive_include_count |-> Cardinality(transitive),
        skipped_files |-> SkippedFiles(project),
        via |-> "filesystem"]

ApplyViaFilesystem(project, p) ==
    LET graph == Graph(project) IN
    IF p # None
    THEN PerFileResult(project, p, Transitive(project, Get(graph, p, <<>>), {}))
    ELSE [files |-> [f \in DOMAIN graph |->
                        [includes |-> graph[f], include_count |-> Len(graph[f])]],
          total_files |-> Cardinality(DOMAIN graph),
          total_include_edges |-> SumOfLens(graph, DOMAIN graph),
          skipped_files |-> SkippedFiles(project),
          via |-> "filesystem"]

\* The files under the project root of the tool layer: model.ivy, which
\* includes a module that has no file, and notes.py.
FileWith(doc) == [readable |-> TRUE, lines |-> doc]
Unreadable == [readable |-> FALSE, lines |-> << <<>> >>]
ProjectOnDisk ==
    [f \in {"model.ivy", "notes.py"} |->
        IF f = "model.ivy" THEN FileWith(<< <<"include", " ", "helper">> >>)
        ELSE FileWith(<< <<>> >>)]

\* Tool._limit_length: a serialized result longer than the ceiling is
\* replaced by a "too long" message.  The length of the serialization is
\* measured in keys plus lines of text.
DefaultMaxAnswerChars == 1000
TextKeys == {"raw_output", "stdout", "stderr", "output"}
RECURSIVE SumLens(_, _)
SumLens(d, K) ==
    IF K = {} THEN 0
    ELSE LET k == CHOOSE x \in K : TRUE IN Len(d[k]) + SumLens(d, K \ {k})
SerializedLen(d) == Cardinality(DOMAIN d) + SumLens(d, DOMAIN d \cap TextKeys)
_limit_length(d, max) ==
    LET ceiling == IF max = -1 THEN DefaultMaxAnswerChars ELSE max IN
    IF SerializedLen(d) > ceiling
    THEN [kind |-> "too_long", value |-> EmptyDict]
    ELSE [kind |-> "json", value |-> d]

\* (mutant) the serialized result is returned whatever its length
ReturnedUnlimited(d, max) == [kind |-> "json", value |-> d]

\* return self._limit_length(json.dumps(payload), max_answer_chars)
Returned(d, max) == _limit_length(d, max)

Raise(e) == [kind |-> "raise", exc |-> e]
NoReturn == [kind |-> "none"]

\* Where apply() goes after _get_ivy_language_server: the session attempt
\* when a session came back, the direct path otherwise.
DirectEntry(t) ==
    IF t = "includeGraph" THEN "filesystem"
    ELSE IF t = "diagnostics" THEN "read_cache"
    ELSE IF t \in StatusTools THEN "error_object"
    ELSE "require_tool"
\* (mutant) the direct path is preferred although a session came back
AfterGetLsDirectFirst(t, ls) == DirectEntry(t)
AfterGetLs(t, ls) == IF ls THEN "lsp" ELSE DirectEntry(t)

\* (mutant) a timeout of the request ends apply() instead of falling back
AfterRaiseTimeoutFatal(t, e) == IF e = "timeout" THEN "done" ELSE DirectEntry(t)

\* Where apply() goes when send_custom_request raised e: "except Exception"
\* logs, whatever e is, and the code after the if block runs.
AfterRaise(t, e) == DirectEntry(t)

\* (mutant) the direct path is entered although the session answered
AfterResponseDirect(t, resp) == DirectEntry(t)

\* Where apply() goes once send_custom_request has returned resp: the
\* diagnostics tool goes on to read the cache; the others return, unless
\* normalising the response raised inside the try block.
AfterResponse(t, resp) ==
    IF t = "diagnostics" \/ SessionRaises(t, resp) THEN DirectEntry(t) ELSE "done"

\* (mutant) the store is asked for the relative path, not for its uri
UriOfRelativePath(p) == "u0"

\* as_uri of the path, as a key of the diagnostics store
UriOf(p) ==
    CASE p = "model.ivy" -> "u1" [] p = "missing.ivy" -> "u2" [] OTHER -> "u0"

\* IvyDiagnosticsTool.apply from "if relative_path is not None" on: what
\* list(...) of the accessors raises on, and the payload
DiagnosticsRaises(ls, st, p) ==
    /\ ls
    /\ IF p # None THEN UriOf(p) \in DOMAIN st /\ ~st[UriOf(p)].isList
       ELSE \E u \in DOMAIN st : ~st[u].isList
DiagnosticsPayload(ls, st, p, fs) ==
    LET body ==
          IF p # None
          THEN LET diags == IF ls /\ UriOf(p) \in DOMAIN st
                            THEN st[UriOf(p)].refs ELSE <<>>
               IN [file |-> p, diagnostics |-> diags, diagnostic_count |-> Len(diags),
                   server_active |-> ls]
          ELSE LET all_diags == IF ls THEN st ELSE [u \in {} |-> None]
               IN [files |-> [u \in DOMAIN all_diags |->
                                [diagnostics |-> all_diags[u].refs,
                                 diagnostic_count |-> Len(all_diags[u].refs)]],
                   total_files |-> Cardinality(DOMAIN all_diags),
                   server_active |-> ls]
    IN [k \in DOMAIN body \cup DOMAIN fs |-> IF k \in DOMAIN fs THEN fs[k] ELSE body[k]]

(***************************************************************************)
(* The tool layer: one invocation of apply(), step by step.                *)
(***************************************************************************)
InitTools ==
    /\ pc = "idle"
    /\ tool = None
    /\ relative_path = None
    /\ isolate = None
    /\ target = "test"
    /\ max_answer_chars = -1
    /\ ivy_ls = FALSE
    /\ onPath = FALSE
    /\ request = NoRequest
    /\ command = <<>>
    /\ lspAttempt = "none"
    /\ child = NoChild
    /\ payload = EmptyDict
    /\ ret = NoReturn
    /\ trace = <<>>

\* The agent calls a tool.  The environment of the call is fixed here: whether
\* a session is available and whether the command-line tool is on PATH.
\* The include-graph tool validates nothing and asks for a session only when
\* no path was given; the diagnostics tool validates nothing either.
Call(t, p, iso, tgt, max, ls, found) ==
    /\ pc = "idle"
    /\ CASE t \in {"includeGraph", "diagnostics"} -> iso = None
         [] t = "setActiveTest" -> p \in {None, "model.ivy"} /\ iso = None
         [] t \in {"serverStatus", "listTests"} -> p = None /\ iso = None
         [] OTHER -> p # None
    /\ tool' = t
    /\ relative_path' = p
    /\ isolate' = iso
    /\ target' = tgt
    /\ max_answer_chars' = max
    /\ ivy_ls' = ls
    /\ onPath' = found
    /\ pc' = IF t \in PathTools THEN "validate"
             ELSE IF t \in StatusTools \cup {"diagnostics"} \/ p = None THEN "get_ls"
             ELSE "filesystem"
    /\ UNCHANGED <<request, command, lspAttempt, child, payload, ret, trace>>
    /\ UNCHANGED <<sessVars, cacheVars, pureVars>>

\* project_root = self.get_project_root(); _validate_ivy_path(...)
ValidateIvyPath ==
    /\ pc = "validate"
    /\ trace' = Append(trace, "validate")
    /\ IF _validate_ivy_path(relative_path) # None
       THEN /\ ret' = Raise(_validate_ivy_path(relative_path))
            /\ pc' = "done"
       ELSE /\ ret' = ret
            /\ pc' = "get_ls"
    /\ UNCHANGED <<tool, relative_path, isolate, target, max_answer_chars, ivy_ls,
                   onPath, request, command, lspAttempt, child, payload>>
    /\ UNCHANGED <<sessVars, cacheVars, pureVars>>

\* ivy_ls = _get_ivy_language_server(self.agent); if ivy_ls is not None: ...
GetIvyLanguageServer ==
    /\ pc = "get_ls"
    /\ trace' = Append(trace, "get_ls")
    /\ pc' = AfterGetLs(tool, ivy_ls)
    /\ UNCHANGED <<tool, relative_path, isolate, target, max_answer_chars, ivy_ls,
                   onPath, request, command, lspAttempt, child, payload, ret>>
    /\ UNCHANGED <<sessVars, cacheVars, pureVars>>

SendRequest ==
    /\ request' = [method |-> Method(tool),
                   params |-> RequestParams(tool, relative_path, isolate, target)]
    /\ trace' = Append(trace, "custom_request")

\* The try block: send_custom_request raises (transport failure, timeout,
\* unsupported method); the except clause logs and apply() goes on to the
\* direct path.
SessionRequestRaises(e) ==
    /\ pc = "lsp"
    /\ SendRequest
    /\ lspAttempt' = e
    /\ pc' = AfterRaise(tool, e)
    /\ UNCHANGED <<tool, relative_path, isolate, target, max_answer_chars, ivy_ls,
                   onPath, command, child, payload, ret>>
    /\ UNCHANGED <<sessVars, cacheVars, pureVars>>

\* The try block: send_custom_request returns resp.  Normalising a response
\* that is no dict raises inside the try block, which falls back as above;
\* otherwise the result is serialized, limited and returned.
SessionRequestReturns(resp) ==
    /\ pc = "lsp"
    /\ SendRequest
    /\ pc' = AfterResponse(tool, resp)
    /\ IF SessionRaises(tool, resp)
       THEN /\ lspAttempt' = "malformed"
            /\ UNCHANGED <<payload, ret>>
       ELSE /\ lspAttempt' = "returned"
            /\ payload' = SessionResult(tool, resp)
            /\ ret' = IF tool = "diagnostics" THEN ret
                      ELSE Returned(SessionResult(tool, resp), max_answer_chars)
    /\ UNCHANGED <<tool, relative_path, isolate, target, max_answer_chars, ivy_ls,
                   onPath, command, child>>
    /\ UNCHANGED <<sessVars, cacheVars, pureVars>>

\* _require_ivy_tool(...): shutil.which
RequireIvyTool ==
    /\ pc = "require_tool"
    /\ trace' = Append(trace, "which")
    /\ IF _require_ivy_tool(onPath) # None
       THEN /\ ret' = Raise(_require_ivy_tool(onPath))
            /\ pc' = "done"
       ELSE /\ ret' = ret
            /\ pc' = "compose"
    /\ UNCHANGED <<tool, relative_path, isolate, target, max_answer_chars, ivy_ls,
                   onPath, request, command, lspAttempt, child, payload>>
    /\ UNCHANGED <<sessVars, cacheVars, pureVars>>

\* command = f"ivy_check isolate={shlex.quote(isolate)} {safe_path}" etc.
Compose ==
    /\ pc = "compose"
    /\ trace' = Append(trace, "compose")
    /\ command' = ComposeCommand(tool, relative_path, isolate, target)
    /\ pc' = "spawn"
    /\ UNCHANGED <<tool, relative_path, isolate, target, max_answer_chars, ivy_ls,
                   onPath, request, lspAttempt, child, payload, ret>>
    /\ UNCHANGED <<sessVars, cacheVars, pureVars>>

\* result = execute_shell_command(command, ...): the child process runs to
\* its end; the result is built, serialized, limited and returned.
ExecuteShellCommand(c) ==
    /\ pc = "spawn"
    /\ trace' = Append(trace, "spawn")
    /\ child' = c
    /\ payload' = DirectResult(tool, c)
    /\ ret' = Returned(DirectResult(tool, c), max_answer_chars)
    /\ pc' = "done"
    /\ UNCHANGED <<tool, relative_path, isolate, target, max_answer_chars, ivy_ls,
                   onPath, request, command, lspAttempt>>
    /\ UNCHANGED <<sessVars, cacheVars, pureVars>>

\* payload = self._apply_via_filesystem(project_root, relative_path)
FilesystemScan ==
    /\ pc = "filesystem"
    /\ trace' = Append(trace, "walk")
    /\ payload' = ApplyViaFilesystem(ProjectOnDisk, relative_path)
    /\ ret' = Returned(ApplyViaFilesystem(ProjectOnDisk, relative_path), max_answer_chars)
    /\ pc' = "done"
    /\ UNCHANGED <<tool, relative_path, isolate, target, max_answer_chars, ivy_ls,
                   onPath, request, command, lspAttempt, child>>
    /\ UNCHANGED <<sessVars, cacheVars, pureVars>>

\* diags = ivy_ls.get_stored_diagnostics(uri) if ivy_ls else [] (or the
\* same for all uris); the payload is built, serialized, limited and returned
ReadCache ==
    /\ pc = "read_cache"
    /\ trace' = Append(trace, "read_cache")
    /\ IF DiagnosticsRaises(ivy_ls, store, relative_path)
       THEN /\ ret' = Raise("TypeError")
            /\ payload' = payload
       ELSE /\ payload' = DiagnosticsPayload(ivy_ls, store, relative_path, payload)
            /\ ret' = Returned(DiagnosticsPayload(ivy_ls, store, relative_path, payload),
                               max_answer_chars)
    /\ pc' = "done"
    /\ UNCHANGED <<tool, relative_path, isolate, target, max_answer_chars, ivy_ls,
                   onPath, request, command, lspAttempt, child>>
    /\ UNCHANGED <<sessVars, cacheVars, pureVars>>

\* return self._limit_length(json.dumps({"server_active": ..., "error": ...}), ...)
\* of the server-status and test-scope tools
ReturnErrorObject ==
    /\ pc = "error_object"
    /\ payload' = ErrorObject(ivy_ls, lspAttempt)
    /\ ret' = Returned(ErrorObject(ivy_ls, lspAttempt), max_answer_chars)
    /\ pc' = "done"
    /\ UNCHANGED <<tool, relative_path, isolate, target, max_answer_chars, ivy_ls,
                   onPath, request, command, lspAttempt, child, trace>>
    /\ UNCHANGED <<sessVars, cacheVars, pureVars>>

\* apply() is over; the next call starts from scratch.
Finish ==
    /\ pc = "done"
    /\ pc' = "idle"
    /\ tool' = None
    /\ relative_path' = None
    /\ isolate' = None
    /\ target' = "test"
    /\ max_answer_chars' = -1
    /\ ivy_ls' = FALSE
    /\ onPath' = FALSE
    /\ request' = NoRequest
    /\ command' = <<>>
    /\ lspAttempt' = "none"
    /\ child' = NoChild
    /\ payload' = EmptyDict
    /\ ret' = NoReturn
    /\ trace' = <<>>
    /\ UNCHANGED <<sessVars, cacheVars, pureVars>>

NextTools ==
    \/ \E t \in Tools, p \in Paths \cup {None}, iso \in Isolates, tgt \in Targets,
          max \in Ceilings, ls \in BOOLEAN, found \in BOOLEAN :
          Call(t, p, iso, tgt, max, ls, found)
    \/ ValidateIvyPath
    \/ GetIvyLanguageServer
    \/ \E e \in RequestErrors : SessionRequestRaises(e)
    \/ \E resp \in Responses : SessionRequestReturns(resp)
    \/ RequireIvyTool
    \/ Compose
    \/ \E c \in ChildResults : ExecuteShellCommand(c)
    \/ FilesystemScan
    \/ ReadCache
    \/ ReturnErrorObject
    \/ Finish

(***************************************************************************)
(* The session: IvyLanguageServer._start_server.                           *)
(***************************************************************************)
MandatoryCapability == "textDocumentSync"
OptionalCapabilities == {"completionProvider", "definitionProvider",
                         "referencesProvider", "documentSymbolProvider",
                         "workspaceSymbolProvider", "hoverProvider"}
Capabilities == {MandatoryCapability} \cup OptionalCapabilities
\* The handlers in the order _start_server registers them.
HandlerOrder == <<"client/registerCapability", "window/logMessage", "$/progress",
                  "textDocument/publishDiagnostics">>
CustomMethods == {"ivy/verify", "ivy/compile", "ivy/showModel", "ivy/includeGraph",
                  "ivy/featureStatus", "ivy/serverStatus", "ivy/listTests",
                  "ivy/setActiveTest"}

\* (mutant) the mandatory capability is not checked
MissingMandatoryUnchecked(caps) == FALSE

\* (mutant) every capability of the list is required
MissingAnyCapability(caps) == caps # Capabilities

\* if "textDocumentSync" not in capabilities: raise RuntimeError
MissingMandatory(caps) == MandatoryCapability \notin caps

\* The manager hands a session to the tools only once it is Ready.
SessionAvailable == sessState = "Ready"

\* What shutil.which("ivy_lsp") can answer.
WhichResults == {None, "/usr/bin/ivy_lsp", "/opt/ivy/bin/ivy_lsp"}
ToolNotFound ==
    "FileNotFoundError: ivy_lsp is not installed or is not in PATH. Install it via: pip install ivy-lsp"

\* (mutant) the bare name is launched when nothing was resolved
FindIvyLspDefault(w) ==
    [raised |-> FALSE, exc |-> None, path |-> IF w = None THEN "ivy_lsp" ELSE w]

\* _find_ivy_lsp: raises when shutil.which found nothing, else returns the path
_find_ivy_lsp(w) ==
    IF w = None THEN [raised |-> TRUE, exc |-> ToolNotFound, path |-> None]
    ELSE [raised |-> FALSE, exc |-> None, path |-> w]

InitSession ==
    /\ sessState = "New"
    /\ spc = "entry"
    /\ handlers = {}
    /\ procStarted = FALSE
    /\ capabilities = {}
    /\ sent = <<>>
    /\ whichResult = None
    /\ launchCmd = None
    /\ ctorRaised = None
    /\ launched = None

\* IvyLanguageServer.__init__: the executable is looked up first; only with
\* its path is the ProcessLaunchInfo built and handed to the framework.
Construct(w) ==
    /\ sessState = "New"
    /\ whichResult' = w
    /\ IF _find_ivy_lsp(w).raised
       THEN /\ sessState' = "ConstructFailed"
            /\ ctorRaised' = _find_ivy_lsp(w).exc
            /\ launchCmd' = launchCmd
       ELSE /\ sessState' = "Created"
            /\ ctorRaised' = ctorRaised
            /\ launchCmd' = _find_ivy_lsp(w).path
    /\ UNCHANGED <<spc, handlers, procStarted, capabilities, sent, launched>>
    /\ UNCHANGED <<toolVars, cacheVars, pureVars>>

\* _start_server is entered
StartServer ==
    /\ sessState = "Created" /\ spc = "entry"
    /\ sessState' = "Handshaking"
    /\ spc' = "register"
    /\ UNCHANGED <<handlers, procStarted, capabilities, sent>>
    /\ UNCHANGED <<whichResult, launchCmd, ctorRaised, launched>>
    /\ UNCHANGED <<toolVars, cacheVars, pureVars>>

\* (mutant) the process is started after the first registration already
StartsAfterFirstHandler(n) == IF n >= 1 THEN "start" ELSE "register"

\* Lines 168-171 come before self.server.start(): the step after the n-th
\* registration is the next registration, or the start after the last one.
AfterRegistration(n) == IF n = Len(HandlerOrder) THEN "start" ELSE "register"

\* self.server.on_request(...) / self.server.on_notification(...), one by one
RegisterHandler ==
    /\ spc = "register"
    /\ LET n == Cardinality(handlers) + 1 IN
       /\ handlers' = handlers \cup {HandlerOrder[n]}
       /\ spc' = AfterRegistration(n)
    /\ UNCHANGED <<sessState, procStarted, capabilities, sent>>
    /\ UNCHANGED <<whichResult, launchCmd, ctorRaised, launched>>
    /\ UNCHANGED <<toolVars, cacheVars, pureVars>>

\* self.server.start()
StartProcess ==
    /\ spc = "start"
    /\ procStarted' = TRUE
    /\ launched' = launchCmd
    /\ spc' = "initialize"
    /\ UNCHANGED <<sessState, handlers, capabilities, sent>>
    /\ UNCHANGED <<whichResult, launchCmd, ctorRaised>>
    /\ UNCHANGED <<toolVars, cacheVars, pureVars>>

\* self.server.send.initialize(initialize_params): the request goes out
SendInitialize ==
    /\ spc = "initialize"
    /\ sent' = Append(sent, "initialize")
    /\ spc' = "await"
    /\ UNCHANGED <<sessState, handlers, procStarted, capabilities>>
    /\ UNCHANGED <<whichResult, launchCmd, ctorRaised, launched>>
    /\ UNCHANGED <<toolVars, cacheVars, pureVars>>

\* ... and its response comes back with some capabilities
InitializeResponse(caps) ==
    /\ spc = "await"
    /\ capabilities' = caps
    /\ spc' = "validate"
    /\ UNCHANGED <<sessState, handlers, procStarted, sent>>
    /\ UNCHANGED <<whichResult, launchCmd, ctorRaised, launched>>
    /\ UNCHANGED <<toolVars, cacheVars, pureVars>>

\* ... or the start-up timeout elapses: the call raises out of _start_server
InitializeTimeout ==
    /\ spc = "await"
    /\ spc' = "raised"
    /\ sessState' = "Failed"
    /\ UNCHANGED <<handlers, procStarted, capabilities, sent>>
    /\ UNCHANGED <<whichResult, launchCmd, ctorRaised, launched>>
    /\ UNCHANGED <<toolVars, cacheVars, pureVars>>

\* the textDocumentSync check and the logging loop over the optional capabilities
ValidateCapabilities ==
    /\ spc = "validate"
    /\ IF MissingMandatory(capabilities)
       THEN spc' = "raised" /\ sessState' = "Failed"
       ELSE spc' = "initialized" /\ sessState' = sessState
    /\ UNCHANGED <<handlers, procStarted, capabilities, sent>>
    /\ UNCHANGED <<whichResult, launchCmd, ctorRaised, launched>>
    /\ UNCHANGED <<toolVars, cacheVars, pureVars>>

\* self.server.notify.initialized({}); _start_server returns
NotifyInitialized ==
    /\ spc = "initialized"
    /\ sent' = Append(sent, "initialized")
    /\ spc' = "returned"
    /\ sessState' = "Ready"
    /\ UNCHANGED <<handlers, procStarted, capabilities>>
    /\ UNCHANGED <<whichResult, launchCmd, ctorRaised, launched>>
    /\ UNCHANGED <<toolVars, cacheVars, pureVars>>

\* a tool sends a custom request on the session it got from the manager
CustomRequest(m) ==
    /\ SessionAvailable
    /\ Len(sent) < MaxRequests + 2
    /\ sent' = Append(sent, m)
    /\ UNCHANGED <<sessState, spc, handlers, procStarted, capabilities>>
    /\ UNCHANGED <<whichResult, launchCmd, ctorRaised, launched>>
    /\ UNCHANGED <<toolVars, cacheVars, pureVars>>

NextSession ==
    \/ \E w \in WhichResults : Construct(w)
    \/ StartServer
    \/ RegisterHandler
    \/ StartProcess
    \/ SendInitialize
    \/ \E caps \in SUBSET Capabilities : InitializeResponse(caps)
    \/ InitializeTimeout
    \/ ValidateCapabilities
    \/ NotifyInitialized
    \/ \E m \in CustomMethods : CustomRequest(m)

(***************************************************************************)
(* The diagnostics store.  A list holds references <<n, i>> to the i-th    *)
(* record that notification n brought; objs[n][i] is that record now.      *)
(***************************************************************************)
URIs == {"u1", "u2"}
URIOrder == <<"u1", "u2">>
Readers == 1..NumReaders
Writer == 0
Free == -1
ErrorDiag == [severity |-> "error", message |-> "m"]
Tampered == [severity |-> "tampered", message |-> "m"]
DiagRecords == {ErrorDiag}
CallerRef == <<0, 0>>

\* The JSON value of a "diagnostics" field: a list of records, or no list.
DiagValues == {[isList |-> FALSE, items |-> <<>>]} \cup
              {[isList |-> TRUE, items |-> l] : l \in SeqsUpTo(DiagRecords, MaxDiags)}
FullParams == [uri : URIs \cup {""}, diagnostics : DiagValues]
NotificationParams ==
    {[isDict |-> FALSE, body |-> EmptyDict]} \cup
    {[isDict |-> TRUE, body |-> Restrict(full, K)] :
        full \in FullParams, K \in SUBSET {"uri", "diagnostics"}}

EmptyList == [isList |-> TRUE, refs |-> <<>>]
NoParams == [uri |-> "", diags |-> EmptyList]
RefsOf(n, len) == [i \in 1..len |-> <<n, i>>]

\* (mutant) only the payload's type is checked, not its uri
DroppedNonDictOnly(params) == ~params.isDict

\* store_diagnostics: the two early returns
ParamsUri(params) == Get(params.body, "uri", "")
Dropped(params) == ~params.isDict \/ ParamsUri(params) = ""
\* diags = params.get("diagnostics", []), as a list of references
ParamsDiags(params, n) ==
    IF Has(params.body, "diagnostics")
    THEN [isList |-> params.body.diagnostics.isList,
          refs |-> RefsOf(n, Len(params.body.diagnostics.items))]
    ELSE EmptyList
ParamsItems(params) ==
    IF params.isDict /\ Has(params.body, "diagnostics")
    THEN params.body.diagnostics.items ELSE <<>>

\* (mutant) the new list is merged into the list already stored
StoreDiagnosticsMerged(st, uri, diags) ==
    (uri :> [isList |-> diags.isList,
             refs |-> (IF uri \in DOMAIN st THEN st[uri].refs ELSE <<>>) \o diags.refs])
    @@ st

\* self._diagnostics_store[uri] = diags
StoreDiagnostics(st, uri, diags) == (uri :> diags) @@ st

\* (mutant) the accessors and the handler do not take the lock
LockAcquireSkipped(t) == lock' = lock

\* (mutant) leaving the with block does not free the lock
LockReleaseKept(t) == lock' = lock

\* with self._diagnostics_lock: entering and leaving
LockAcquire(t) == lock = Free /\ lock' = t
LockRelease(t) == lock' = IF lock = t THEN Free ELSE lock

\* self._diagnostics_store.get(uri, [])
StoreGet(st, uri) == IF uri \in DOMAIN st THEN st[uri] ELSE EmptyList
\* list(...): a new list holding the same references
ListCopy(entry) == entry.refs
KeysInOrder(st) == SelectSeq(URIOrder, LAMBDA u : u \in DOMAIN st)

\* A valid notification: a structured object with a non-empty identifier.
ValidNotification(params) ==
    params.isDict /\ Has(params.body, "uri") /\ params.body.uri # ""

InitCache ==
    /\ store = EmptyDict
    /\ objs = [n \in 1..MaxNotifs |-> <<>>]
    /\ notifs = 0
    /\ lock = Free
    /\ wpc = "idle"
    /\ wparams = NoParams
    /\ wret = "none"
    /\ rpc = [r \in Readers |-> "idle"]
    /\ rarg = [r \in Readers |-> None]
    /\ rleft = [r \in Readers |-> <<>>]
    /\ rres = [r \in Readers |-> EmptyDict]
    /\ snap = [r \in Readers |-> EmptyDict]
    /\ published = [u \in URIs |-> 0]

\* A textDocument/publishDiagnostics notification arrives and store_diagnostics
\* runs up to the lock: it returns early on a payload that is no dict or has
\* no uri.
Deliver(params) ==
    /\ wpc = "idle"
    /\ notifs < MaxNotifs
    /\ notifs' = notifs + 1
    /\ IF Dropped(params)
       THEN /\ wret' = "returned"
            /\ UNCHANGED <<wpc, wparams, objs>>
       ELSE /\ wpc' = "acquire"
            /\ wret' = "none"
            /\ wparams' = [uri |-> ParamsUri(params),
                           diags |-> ParamsDiags(params, notifs + 1)]
            /\ objs' = [objs EXCEPT ![notifs + 1] = ParamsItems(params)]
    /\ published' = IF ValidNotification(params)
                    THEN [published EXCEPT ![params.body.uri] = notifs + 1]
                    ELSE published
    /\ UNCHANGED <<store, lock, rpc, rarg, rleft, rres, snap>>
    /\ UNCHANGED <<toolVars, sessVars, pureVars>>

WriterAcquire ==
    /\ wpc = "acquire"
    /\ LockAcquire(Writer)
    /\ wpc' = "store"
    /\ UNCHANGED <<store, objs, notifs, wparams, wret, rpc, rarg, rleft, rres, snap,
                   published>>
    /\ UNCHANGED <<toolVars, sessVars, pureVars>>

WriterStore ==
    /\ wpc = "store"
    /\ store' = StoreDiagnostics(store, wparams.uri, wparams.diags)
    /\ wpc' = "release"
    /\ UNCHANGED <<objs, notifs, lock, wparams, wret, rpc, rarg, rleft, rres, snap,
                   published>>
    /\ UNCHANGED <<toolVars, sessVars, pureVars>>

\* the lock is left; log.debug(f"Stored {len(diags)} ...") raises on no list
WriterRelease ==
    /\ wpc = "release"
    /\ LockRelease(Writer)
    /\ wret' = IF wparams.diags.isList THEN "returned" ELSE "raised TypeError"
    /\ wpc' = "idle"
    /\ wparams' = NoParams
    /\ UNCHANGED <<store, objs, notifs, rpc, rarg, rleft, rres, snap, published>>
    /\ UNCHANGED <<toolVars, sessVars, pureVars>>

\* get_stored_diagnostics(uri) or, with None, get_all_stored_diagnostics()
ReaderCall(r, a) ==
    /\ rpc[r] = "idle"
    /\ rpc' = [rpc EXCEPT ![r] = "acquire"]
    /\ rarg' = [rarg EXCEPT ![r] = a]
    /\ UNCHANGED <<store, objs, notifs, lock, wpc, wparams, wret, rleft, rres, snap,
                   published>>
    /\ UNCHANGED <<toolVars, sessVars, pureVars>>

ReaderAcquire(r) ==
    /\ rpc[r] = "acquire"
    /\ LockAcquire(r)
    /\ LET keys == IF rarg[r] = None THEN KeysInOrder(store) ELSE <<rarg[r]>> IN
       /\ rleft' = [rleft EXCEPT ![r] = keys]
       /\ rpc' = [rpc EXCEPT ![r] = IF keys = <<>> THEN "release" ELSE "copy"]
    /\ snap' = [snap EXCEPT ![r] = store]
    /\ UNCHANGED <<store, objs, notifs, wpc, wparams, wret, rarg, rres, published>>
    /\ UNCHANGED <<toolVars, sessVars, pureVars>>

\* one list(...) of the accessor: the whole of it for one uri, one step of
\* the dict comprehension for all
ReaderCopy(r) ==
    /\ rpc[r] = "copy"
    /\ LET u == Head(rleft[r])
           entry == StoreGet(store, u)
       IN IF entry.isList
          THEN /\ rres' = [rres EXCEPT ![r] = (u :> ListCopy(entry)) @@ @]
               /\ rleft' = [rleft EXCEPT ![r] = Tail(@)]
               /\ rpc' = [rpc EXCEPT ![r] =
                            IF Tail(rleft[r]) = <<>> THEN "release" ELSE "copy"]
          ELSE /\ rres' = [rres EXCEPT ![r] = EmptyDict]
               /\ rleft' = [rleft EXCEPT ![r] = <<>>]
               /\ rpc' = [rpc EXCEPT ![r] = "release_raise"]
    /\ UNCHANGED <<store, objs, notifs, lock, wpc, wparams, wret, rarg, snap, published>>
    /\ UNCHANGED <<toolVars, sessVars, pureVars>>

\* the accessor leaves the lock and returns (or raises TypeError)
ReaderRelease(r) ==
    /\ rpc[r] \in {"release", "release_raise"}
    /\ LockRelease(r)
    /\ rpc' = [rpc EXCEPT ![r] = IF rpc[r] = "release" THEN "returned" ELSE "raised"]
    /\ UNCHANGED <<store, objs, notifs, wpc, wparams, wret, rarg, rleft, rres, snap,
                   published>>
    /\ UNCHANGED <<toolVars, sessVars, pureVars>>

Holding(r) == rpc[r] = "returned"

\* The caller changes a field of a record of the value it was returned.
CallerSetField(r, u, i) ==
    /\ Holding(r)
    /\ u \in DOMAIN rres[r] /\ i \in 1..Len(rres[r][u])
    /\ rres[r][u][i] # CallerRef
    /\ LET ref == rres[r][u][i] IN
       /\ objs[ref[1]][ref[2]] # Tampered
       /\ objs' = [objs EXCEPT ![ref[1]][ref[2]] = Tampered]
    /\ rpc' = [rpc EXCEPT ![r] = "held"]
    /\ UNCHANGED <<store, notifs, lock, wpc, wparams, wret, rarg, rleft, rres, snap,
                   published>>
    /\ UNCHANGED <<toolVars, sessVars, pureVars>>

\* The caller appends a record of its own to a list it was returned.
CallerAppend(r, u) ==
    /\ Holding(r)
    /\ u \in DOMAIN rres[r]
    /\ \A i \in 1..Len(rres[r][u]) : rres[r][u][i] # CallerRef
    /\ rres' = [rres EXCEPT ![r][u] = Append(@, CallerRef)]
    /\ rpc' = [rpc EXCEPT ![r] = "held"]
    /\ UNCHANGED <<store, objs, notifs, lock, wpc, wparams, wret, rarg, rleft, snap,
                   published>>
    /\ UNCHANGED <<toolVars, sessVars, pureVars>>

\* The caller removes the first element of a list it was returned.
CallerRemove(r, u) ==
    /\ Holding(r)
    /\ u \in DOMAIN rres[r] /\ rres[r][u] # <<>>
    /\ rres' = [rres EXCEPT ![r][u] = Tail(@)]
    /\ rpc' = [rpc EXCEPT ![r] = "held"]
    /\ UNCHANGED <<store, objs, notifs, lock, wpc, wparams, wret, rarg, rleft, snap,
                   published>>
    /\ UNCHANGED <<toolVars, sessVars, pureVars>>

\* The caller drops the value.
ReaderDone(r) ==
    /\ rpc[r] \in {"returned", "held", "raised"}
    /\ rpc' = [rpc EXCEPT ![r] = "idle"]
    /\ rarg' = [rarg EXCEPT ![r] = None]
    /\ rres' = [rres EXCEPT ![r] = EmptyDict]
    /\ snap' = [snap EXCEPT ![r] = EmptyDict]
    /\ UNCHANGED <<store, objs, notifs, lock, wpc, wparams, wret, rleft, published>>
    /\ UNCHANGED <<toolVars, sessVars, pureVars>>

\* The store, its writer and its readers.
NextCache ==
    \/ \E params \in NotificationParams : Deliver(params)
    \/ WriterAcquire
    \/ WriterStore
    \/ WriterRelease
    \/ \E r \in Readers, a \in URIs \cup {None} : ReaderCall(r, a)
    \/ \E r \in Readers : ReaderAcquire(r)
    \/ \E r \in Readers : ReaderCopy(r)
    \/ \E r \in Readers : ReaderRelease(r)
    \/ \E r \in Readers : ReaderDone(r)

\* The notification handler on its own, with no reader about.
NextHandler ==
    \/ \E params \in NotificationParams : Deliver(params)
    \/ WriterAcquire
    \/ WriterStore
    \/ WriterRelease

\* Tool invocations as threads.  IvyDiagnosticsTool.apply sends its
\* ivy/featureStatus request and waits for the answer before it calls an
\* accessor of the store ...
DiagnosticsToolCall(r, a) ==
    /\ rpc[r] = "idle"
    /\ rpc' = [rpc EXCEPT ![r] = "request"]
    /\ rarg' = [rarg EXCEPT ![r] = a]
    /\ UNCHANGED <<store, objs, notifs, lock, wpc, wparams, wret, rleft, rres, snap,
                   published>>
    /\ UNCHANGED <<toolVars, sessVars, pureVars>>

\* ... the round trip ends, with a response or an exception, and the tool
\* goes on to get_stored_diagnostics / get_all_stored_diagnostics
RequestRoundTripEnds(r) ==
    /\ rpc[r] = "request"
    /\ rpc' = [rpc EXCEPT ![r] = "acquire"]
    /\ UNCHANGED <<store, objs, notifs, lock, wpc, wparams, wret, rarg, rleft, rres, snap,
                   published>>
    /\ UNCHANGED <<toolVars, sessVars, pureVars>>

\* A tool on its direct path: execute_shell_command blocks the thread for
\* the lifetime of the child process, and the tool returns.
DirectToolCall(r) ==
    /\ rpc[r] = "idle"
    /\ rpc' = [rpc EXCEPT ![r] = "child"]
    /\ UNCHANGED <<store, objs, notifs, lock, wpc, wparams, wret, rarg, rleft, rres, snap,
                   published>>
    /\ UNCHANGED <<toolVars, sessVars, pureVars>>
ChildExits(r) ==
    /\ rpc[r] = "child"
    /\ rpc' = [rpc EXCEPT ![r] = "returned"]
    /\ UNCHANGED <<store, objs, notifs, lock, wpc, wparams, wret, rarg, rleft, rres, snap,
                   published>>
    /\ UNCHANGED <<toolVars, sessVars, pureVars>>

\* The notifications of the runs with tool threads: a list for u1, an empty
\* list for u2.
LockParams ==
    {[isDict |-> TRUE,
      body |-> [uri |-> "u1", diagnostics |-> [isList |-> TRUE, items |-> <<ErrorDiag>>]]],
     [isDict |-> TRUE,
      body |-> [uri |-> "u2", diagnostics |-> [isList |-> TRUE, items |-> <<>>]]]}

\* The handler and the tool threads around the lock.
NextLock ==
    \/ \E params \in LockParams : Deliver(params)
    \/ WriterAcquire
    \/ WriterStore
    \/ WriterRelease
    \/ \E r \in Readers, a \in URIs \cup {None} : DiagnosticsToolCall(r, a)
    \/ \E r \in Readers : RequestRoundTripEnds(r)
    \/ \E r \in Readers : DirectToolCall(r)
    \/ \E r \in Readers : ChildExits(r)
    \/ \E r \in Readers : ReaderAcquire(r)
    \/ \E r \in Readers : ReaderCopy(r)
    \/ \E r \in Readers : ReaderRelease(r)
    \/ \E r \in Readers : ReaderDone(r)

\* The diagnostics tool next to the handler of its session: notifications
\* arrive while the tool runs.  A notification brings a list for u1, an
\* empty list for u2, or a JSON null where the list should be.
DiagnosticsNotifications ==
    LockParams \cup
    {[isDict |-> TRUE,
      body |-> [uri |-> "u1", diagnostics |-> [isList |-> FALSE, items |-> <<>>]]]}
FeatureStatusResponses ==
    {[kind |-> "null"], [kind |-> "dict", body |-> EmptyDict],
     [kind |-> "dict", body |-> [success |-> TRUE]]}
NextDiagnostics ==
    \/ \E p \in {"model.ivy", "missing.ivy", None}, max \in {-1, TinyLimit},
          ls \in BOOLEAN : Call("diagnostics", p, None, "test", max, ls, FALSE)
    \/ GetIvyLanguageServer
    \/ \E e \in RequestErrors : SessionRequestRaises(e)
    \/ \E resp \in FeatureStatusResponses : SessionRequestReturns(resp)
    \/ ReadCache
    \/ Finish
    \/ \E params \in DiagnosticsNotifications : Deliver(params)
    \/ WriterAcquire
    \/ WriterStore
    \/ WriterRelease

\* What a caller may do to the value an accessor returned to it.
CallerMutation ==
    \/ \E r \in Readers, u \in URIs, i \in 1..MaxDiags : CallerSetField(r, u, i)
    \/ \E r \in Readers, u \in URIs : CallerAppend(r, u)
    \/ \E r \in Readers, u \in URIs : CallerRemove(r, u)

\* The same, with callers that change the values they were returned.
NextCallers ==
    \/ \E params \in NotificationParams : Deliver(params)
    \/ WriterAcquire
    \/ WriterStore
    \/ WriterRelease
    \/ \E r \in Readers, a \in URIs \cup {None} : ReaderCall(r, a)
    \/ \E r \in Readers : ReaderAcquire(r)
    \/ \E r \in Readers : ReaderCopy(r)
    \/ \E r \in Readers : ReaderRelease(r)
    \/ \E r \in Readers, u \in URIs, i \in 1..MaxDiags : CallerSetField(r, u, i)
    \/ \E r \in Readers, u \in URIs : CallerAppend(r, u)
    \/ \E r \in Readers, u \in URIs : CallerRemove(r, u)
    \/ \E r \in Readers : ReaderDone(r)

(***************************************************************************)
(* The parser on its own: _parse_ivy_check_output applied to texts written *)
(* line by line from known fields.                                         *)
(***************************************************************************)
\* The fields a diagnostic line is written from.
FieldFiles == {<<"a">>, <<"a", ":", "b">>}
FieldNumbers == {[digits |-> <<"0", "7">>, value |-> 7]}
FieldGaps == {<<>>, <<" ">>}
FieldSeverities == {"error", "warning"}
FieldMessages == {<<>>, <<"y", ":", "3", ":", " ", "warning", ":", " ", "z">>}
\* Lines that are no diagnostic line: free text, an empty line, no line
\* number, another severity, a blank before the second colon, no colon
\* after the severity.
OtherLines == {NoiseLine,
               <<>>,
               <<"a", ":", " ", "error", ":", " ", "m">>,
               <<"a", ":", "1", ":", " ", "n", "o", "t", "e", ":", " ", "m">>,
               <<"a", ":", "1", " ", ":", " ", "error", ":", " ", "m">>,
               <<"a", ":", "1", ":", " ", "error", " ", "m">>}
DiagnosticLines ==
    [wf : {TRUE}, file : FieldFiles, number : FieldNumbers, gap : FieldGaps,
     severity : FieldSeverities, message : FieldMessages, raw : {<<>>}]
PlainLines ==
    [wf : {FALSE}, file : {<<>>}, number : {[digits |-> <<>>, value |-> 0]},
     gap : {<<>>}, severity : {"error"}, message : {<<>>}, raw : OtherLines]
LineDescriptions == DiagnosticLines \cup PlainLines

\* path:line: severity: message, as text
RenderLine(d) ==
    IF d.wf
    THEN d.file \o <<":">> \o d.number.digits \o <<":">> \o d.gap
         \o <<d.severity>> \o <<":">> \o d.gap \o d.message
    ELSE d.raw
Render(descs) == [i \in 1..Len(descs) |-> RenderLine(descs[i])]

InitParser ==
    /\ ppc = "idle"
    /\ pdesc = <<>>
    /\ ptext = <<>>
    /\ pres = <<>>

\* diagnostics = _parse_ivy_check_output(output)
ParseCall(descs) ==
    /\ ppc = "idle"
    /\ pdesc' = descs
    /\ ptext' = Render(descs)
    /\ pres' = _parse_ivy_check_output(Render(descs))
    /\ ppc' = "returned"
    /\ UNCHANGED <<toolVars, sessVars, cacheVars, scanVars, graphVars, instVars, closureVars>>

\* the caller is done with the list
ParseDone ==
    /\ ppc = "returned"
    /\ ppc' = "idle"
    /\ pdesc' = <<>>
    /\ ptext' = <<>>
    /\ pres' = <<>>
    /\ UNCHANGED <<toolVars, sessVars, cacheVars, scanVars, graphVars, instVars, closureVars>>

NextParser ==
    \/ \E descs \in SeqsUpTo(LineDescriptions, MaxParseLines) : ParseCall(descs)
    \/ ParseDone

(***************************************************************************)
(* The structural scanner: _check_structural_issues.  A document is the    *)
(* sequence source.split("\n") of its lines, never empty; a line is a      *)
(* sequence of tokens: "{", "}", "#", the header marker "#lang" (which     *)
(* begins with the character "#"), a blank, or any other character.        *)
(***************************************************************************)
IsHash(tok) == tok \in {"#", "#lang"}
\* str.lstrip() / str.strip() of one line, as far as its first token goes
RECURSIVE LStripLine(_)
LStripLine(line) ==
    IF line # <<>> /\ Head(line) \in Whitespace THEN LStripLine(Tail(line)) ELSE line
StartsWithLang(line) == line # <<>> /\ Head(line) = "#lang"

\* source.lstrip().startswith("#lang"): blanks and line breaks are skipped
RECURSIVE SourceStartsWithLang(_)
SourceStartsWithLang(lines) ==
    IF lines = <<>> THEN FALSE
    ELSE IF LStripLine(Head(lines)) = <<>> THEN SourceStartsWithLang(Tail(lines))
    ELSE StartsWithLang(LStripLine(Head(lines)))

LintDiag(lineNo, sev, msg, n) ==
    [line |-> lineNo, severity |-> sev, message |-> msg, source |-> "ivy-lint",
     unclosed |-> n, module |-> None]

\* 1. Missing #lang header
HeaderDiags(lines) ==
    IF ~SourceStartsWithLang(lines)
    THEN <<LintDiag(1, "warning", "Missing '#lang ivy1.7' header", 0)>>
    ELSE <<>>

\* line_text.split("#")[0]
RECURSIVE BeforeHash(_)
BeforeHash(line) ==
    IF line = <<>> \/ IsHash(Head(line)) THEN <<>>
    ELSE <<Head(line)>> \o BeforeHash(Tail(line))

\* code = line_text if line_text.strip().startswith("#lang") else line_text.split("#")[0]
CodeOf(line) == IF StartsWithLang(LStripLine(line)) THEN line ELSE BeforeHash(line)

\* (mutant) the depth is not reset after a stray closing brace
ScanCharNoReset(depth, ch) ==
    LET d == IF ch = "{" THEN depth + 1 ELSE IF ch = "}" THEN depth - 1 ELSE depth
    IN [depth |-> d, stray |-> d < 0]

\* One turn of "for ch in code": the new depth, and whether the turn
\* appended an "Unmatched closing brace".
ScanChar(depth, ch) ==
    LET d == IF ch = "{" THEN depth + 1 ELSE IF ch = "}" THEN depth - 1 ELSE depth
    IN IF d < 0 THEN [depth |-> 0, stray |-> TRUE] ELSE [depth |-> d, stray |-> FALSE]

\* for ch in code, on line i + 1
RECURSIVE ScanCode(_, _, _)
ScanCode(code, depth, lineNo) ==
    IF code = <<>> THEN [depth |-> depth, diags |-> <<>>]
    ELSE LET r == ScanChar(depth, Head(code))
             rest == ScanCode(Tail(code), r.depth, lineNo)
         IN [depth |-> rest.depth,
             diags |-> (IF r.stray
                        THEN <<LintDiag(lineNo, "error", "Unmatched closing brace", 0)>>
                        ELSE <<>>) \o rest.diags]

\* for i, line_text in enumerate(lines), from line i on
RECURSIVE ScanLines(_, _, _)
ScanLines(lines, i, depth) ==
    IF i > Len(lines) THEN [depth |-> depth, diags |-> <<>>]
    ELSE LET r == ScanCode(CodeOf(lines[i]), depth, i)
             rest == ScanLines(lines, i + 1, r.depth)
         IN [depth |-> rest.depth, diags |-> r.diags \o rest.diags]

\* (mutant) one end-of-file error for each unclosed opener
EofDiagsPerOpener(lines, depth) ==
    [i \in 1..depth |-> LintDiag(Len(lines), "error", "Unmatched opening brace", 1)]

\* if depth > 0: diags.append(... f"Unmatched opening brace ({depth} unclosed)")
EofDiags(lines, depth) ==
    IF depth > 0
    THEN <<LintDiag(Len(lines), "error", "Unmatched opening brace", depth)>>
    ELSE <<>>

\* 2. Unmatched braces
BraceDiags(lines) ==
    LET r == ScanLines(lines, 1, 0) IN r.diags \o EofDiags(lines, r.depth)

\* os.path.isfile(os.path.join(parent_dir, inc_name + ".ivy")): the modules
\* that have a file in the directory of the document
SiblingModules == {"helper"}

\* line_no of one match
IncludeLine(text, mt) == LineOfOffset(text, mt.start)

IncludeDiag(lineNo, name) ==
    [line |-> lineNo, severity |-> "warning", message |-> "Unresolved include",
     source |-> "ivy-lint", unclosed |-> 0, module |-> name]

\* 3. Unresolved includes
RECURSIVE UnresolvedDiags(_, _)
UnresolvedDiags(text, matches) ==
    IF matches = <<>> THEN <<>>
    ELSE (IF Head(matches).name \notin SiblingModules
          THEN <<IncludeDiag(IncludeLine(text, Head(matches)), Head(matches).name)>>
          ELSE <<>>)
         \o UnresolvedDiags(text, Tail(matches))
IncludeDiags(lines) ==
    UnresolvedDiags(JoinLines(lines), FindIncludes(JoinLines(lines), 1))

_check_structural_issues(lines) ==
    HeaderDiags(lines) \o BraceDiags(lines) \o IncludeDiags(lines)

\* The lines the documents of the model are made of.
SourceLines ==
    {<<"#lang">>, <<" ", "#lang", " ", "#", "{">>, <<>>, <<" ">>,
     <<"{">>, <<"}">>, <<"{", "x", "}">>, <<"}", "{">>, <<"{", "{">>,
     <<"x", " ", "#", " ", "}">>}
\* ... and the lines of the documents that hold include directives: a
\* directive of a module with and without a file, one written with a tab and
\* a trailing comment, the keyword alone, a module name alone, an indented
\* directive, the header.
IncludeLines ==
    {<<"include", " ", "helper">>, <<"include", " ", "ghost">>,
     <<"include", "\t", "ghost", " ", "#", "x">>,
     <<"include">>, <<"ghost">>, <<" ", "include", " ", "ghost">>, <<"#lang">>}
Documents ==
    (SeqsUpTo(SourceLines, MaxSourceLines) \cup SeqsUpTo(IncludeLines, MaxSourceLines))
    \ {<<>>}

InitScanner ==
    /\ scpc = "idle"
    /\ source = <<>>
    /\ scanDiags = <<>>

\* diagnostics = _check_structural_issues(source, abs_path)
ScanCall(doc) ==
    /\ scpc = "idle"
    /\ source' = doc
    /\ scanDiags' = _check_structural_issues(doc)
    /\ scpc' = "returned"
    /\ UNCHANGED <<toolVars, sessVars, cacheVars, parseVars, graphVars, instVars, closureVars>>

\* the caller is done with the list
ScanDone ==
    /\ scpc = "returned"
    /\ scpc' = "idle"
    /\ source' = <<>>
    /\ scanDiags' = <<>>
    /\ UNCHANGED <<toolVars, sessVars, cacheVars, parseVars, graphVars, instVars, closureVars>>

NextScanner ==
    \/ \E doc \in Documents : ScanCall(doc)
    \/ ScanDone

(***************************************************************************)
(* The filesystem scan of the include graph on its own, over projects of   *)
(* a few files that include one another.                                   *)
(***************************************************************************)
GraphFiles == {"a.ivy", "b.ivy", "c.ivy"}
GraphModules == {"a", "b", "c"}
\* a directive for each module, and the keyword with nothing after it
GraphLines == {<<"include", " ", mod>> : mod \in GraphModules} \cup {<<"include">>}
\* an empty file, a file of one such line, a file of two
GraphDocs == {<< <<>> >>} \cup {<<l>> : l \in GraphLines}
             \cup {<<l, k>> : l \in GraphLines, k \in GraphLines}
FileStates == {Unreadable} \cup {FileWith(doc) : doc \in GraphDocs}
Projects ==
    UNION {[F -> FileStates] : F \in {G \in SUBSET GraphFiles : Cardinality(G) <= MaxFiles}}
GraphQueries == {"a.ivy", None}
NoGraphResult == [via |-> None]

InitGraph ==
    /\ gpc = "idle"
    /\ gproject = EmptyDict
    /\ gpath = None
    /\ gres = NoGraphResult

\* payload = self._apply_via_filesystem(project_root, relative_path)
GraphCall(project, p) ==
    /\ gpc = "idle"
    /\ gproject' = project
    /\ gpath' = p
    /\ gres' = ApplyViaFilesystem(project, p)
    /\ gpc' = "returned"
    /\ UNCHANGED <<toolVars, sessVars, cacheVars, parseVars, scanVars, instVars, closureVars>>

\* the caller is done with the object
GraphDone ==
    /\ gpc = "returned"
    /\ gpc' = "idle"
    /\ gproject' = EmptyDict
    /\ gpath' = None
    /\ gres' = NoGraphResult
    /\ UNCHANGED <<toolVars, sessVars, cacheVars, parseVars, scanVars, instVars, closureVars>>

NextGraph ==
    \/ \E project \in Projects, p \in GraphQueries : GraphCall(project, p)
    \/ GraphDone

(***************************************************************************)
(* The per-file query once more, with the while loop that collects the     *)
(* transitive includes run one iteration at a time.                        *)
(***************************************************************************)
\* (mutant) the test "if mod in transitive" never succeeds
NeverVisited(mod, seen) == FALSE

\* if mod in transitive: continue
AlreadyVisited(mod, seen) == mod \in seen

\* The projects the loop is run on: the loop sees module names only, so
\* the files are unreadable, empty, or made of directives.
ClosureProjects ==
    {project \in Projects :
        \A f \in DOMAIN project : <<"include">> \notin RangeOf(project[f].lines)}

InitClosure ==
    /\ tstack = <<>>
    /\ tseen = {}
    /\ texpanded = <<>>

\* the scan is over: transitive = set(); stack = list(includes)
ClosureStart(project, p) ==
    /\ gpc = "idle"
    /\ gproject' = project
    /\ gpath' = p
    /\ gpc' = "loop"
    /\ tstack' = Get(Graph(project), p, <<>>)
    /\ tseen' = {}
    /\ texpanded' = <<>>
    /\ UNCHANGED gres
    /\ UNCHANGED <<toolVars, sessVars, cacheVars, parseVars, scanVars, instVars>>

\* one iteration of "while stack:".  No run of the loop looks at more names
\* than Cardinality(Words) + 1; the guard keeps the log finite.
ClosureStep ==
    /\ gpc = "loop"
    /\ tstack # <<>>
    /\ Len(texpanded) <= Cardinality(Words)
    /\ LET mod == tstack[Len(tstack)]
           rest == SubSeq(tstack, 1, Len(tstack) - 1)
       IN IF AlreadyVisited(mod, tseen)
          THEN /\ tstack' = rest
               /\ UNCHANGED <<tseen, texpanded>>
          ELSE /\ tseen' = tseen \cup {mod}
               /\ tstack' = rest \o Expand(gproject, mod)
               /\ texpanded' = Append(texpanded, mod)
    /\ UNCHANGED <<gpc, gproject, gpath, gres>>
    /\ UNCHANGED <<toolVars, sessVars, cacheVars, parseVars, scanVars, instVars>>

\* the stack is empty: the result object is built and returned
ClosureReturn ==
    /\ gpc = "loop"
    /\ tstack = <<>>
    /\ gres' = PerFileResult(gproject, gpath, tseen)
    /\ gpc' = "returned"
    /\ UNCHANGED <<gproject, gpath, tstack, tseen, texpanded>>
    /\ UNCHANGED <<toolVars, sessVars, cacheVars, parseVars, scanVars, instVars>>

\* the caller is done with the object; the locals of the call are gone
ClosureDone ==
    /\ gpc = "returned"
    /\ gpc' = "idle"
    /\ gproject' = EmptyDict
    /\ gpath' = None
    /\ gres' = NoGraphResult
    /\ tstack' = <<>>
    /\ tseen' = {}
    /\ texpanded' = <<>>
    /\ UNCHANGED <<toolVars, sessVars, cacheVars, parseVars, scanVars, instVars>>

NextClosure ==
    \/ \E project \in ClosureProjects : ClosureStart(project, "a.ivy")
    \/ ClosureStep
    \/ ClosureReturn
    \/ ClosureDone

(***************************************************************************)
(* Several sessions.  __init__ binds self._diagnostics_store to a new dict *)
(* object; the handler registered by _start_server closes over self.       *)
(***************************************************************************)
Sessions == 1..NumSessions

\* (mutant) the dict is a class attribute, shared by every instance
StoreOfClassLevel(s) == 1

\* self._diagnostics_store = {}: the dict object session s refers to
StoreOf(s) == s

NoRead == [session |-> 0, arg |-> None, value |-> EmptyDict]

\* get_all_stored_diagnostics() of session s
get_all_stored_diagnostics(s) ==
    [u \in DOMAIN istore[StoreOf(s)] |-> ListCopy(istore[StoreOf(s)][u])]
\* get_stored_diagnostics(uri) of session s
get_stored_diagnostics(s, uri) == ListCopy(StoreGet(istore[StoreOf(s)], uri))

InitInstances ==
    /\ istore = [o \in Sessions |-> EmptyDict]
    /\ ihandled = [s \in Sessions |-> 0]
    /\ iret = NoRead

\* notifications handled by the sessions 1..s together
RECURSIVE HandledUpTo(_)
HandledUpTo(s) == IF s = 0 THEN 0 ELSE ihandled[s] + HandledUpTo(s - 1)

InstanceParams == LockParams \cup {[isDict |-> FALSE, body |-> EmptyDict]}

\* A textDocument/publishDiagnostics notification reaches session s and its
\* store_diagnostics runs from entry to return.
InstanceDeliver(s, params) ==
    /\ HandledUpTo(NumSessions) < MaxInstNotifs
    /\ ihandled' = [ihandled EXCEPT ![s] = @ + 1]
    /\ istore' = IF Dropped(params) THEN istore
                 ELSE [istore EXCEPT ![StoreOf(s)] =
                          StoreDiagnostics(@, ParamsUri(params),
                                           ParamsDiags(params, ihandled[s] + 1))]
    /\ UNCHANGED iret
    /\ UNCHANGED <<toolVars, sessVars, cacheVars, parseVars, scanVars, graphVars, closureVars>>

\* An accessor of session s is called and returns.
InstanceRead(s, a) ==
    /\ iret' = [session |-> s, arg |-> a,
                value |-> IF a = None THEN get_all_stored_diagnostics(s)
                          ELSE (a :> get_stored_diagnostics(s, a))]
    /\ UNCHANGED <<istore, ihandled>>
    /\ UNCHANGED <<toolVars, sessVars, cacheVars, parseVars, scanVars, graphVars, closureVars>>

NextInstances ==
    \/ \E s \in Sessions, params \in InstanceParams : InstanceDeliver(s, params)
    \/ \E s \in Sessions, a \in URIs \cup {None} : InstanceRead(s, a)

(***************************************************************************)
(* Specifications: the parts run on their own.                             *)
(***************************************************************************)
Init ==
    /\ InitTools /\ InitSession /\ InitCache /\ InitParser /\ InitScanner /\ InitGraph
    /\ InitInstances /\ InitClosure
Next ==
    \/ NextTools \/ NextSession \/ NextCallers \/ NextLock \/ NextParser \/ NextScanner
    \/ NextGraph \/ NextInstances \/ NextClosure
\* An iteration of the loop is a pop, a set test and a list extension: the
\* loop runs on until its condition fails.
SpecClosure ==
    /\ Init /\ [][NextClosure]_vars
    /\ WF_vars(ClosureStep) /\ WF_vars(ClosureReturn)
SpecInstances == Init /\ [][NextInstances]_vars
SpecGraph == Init /\ [][NextGraph]_vars
SpecScanner == Init /\ [][NextScanner]_vars
SpecParser == Init /\ [][NextParser]_vars
Spec == Init /\ [][Next]_vars
SpecTools == Init /\ [][NextTools]_vars
\* Every custom request returns or raises, every child process exits, and
\* the straight-line code between them runs on.
SpecToolsFair ==
    /\ Init /\ [][NextTools]_vars
    /\ WF_vars(ValidateIvyPath) /\ WF_vars(GetIvyLanguageServer)
    /\ WF_vars((\E e \in RequestErrors : SessionRequestRaises(e))
                  \/ (\E resp \in Responses : SessionRequestReturns(resp)))
    /\ WF_vars(RequireIvyTool) /\ WF_vars(Compose)
    /\ WF_vars(\E c \in ChildResults : ExecuteShellCommand(c))
SpecDiagnostics == Init /\ [][NextDiagnostics]_vars
SpecSession == Init /\ [][NextSession]_vars
SpecCache == Init /\ [][NextCache]_vars
SpecHandler == Init /\ [][NextHandler]_vars
SpecCallers == Init /\ [][NextCallers]_vars
\* The body of a with block is a dict lookup, a list copy or one assignment:
\* a thread inside it goes on to leave it.
SpecLock ==
    /\ Init /\ [][NextLock]_vars
    /\ WF_vars(WriterStore) /\ WF_vars(WriterRelease)
    /\ \A r \in Readers : WF_vars(ReaderCopy(r)) /\ WF_vars(ReaderRelease(r))

(***************************************************************************)
(* Views used by the properties.                                           *)
(***************************************************************************)
\* The path a "via" tag names: the code writes "lsp" for the session and
\* "cli" or "filesystem" for the direct path.
PathUsed(v) == IF v = "lsp" THEN "session" ELSE "direct"
InTrace(e) == \E i \in 1..Len(trace) : trace[i] = e
TimesInTrace(e) == Cardinality({i \in 1..Len(trace) : trace[i] = e})
DirectSteps == {"which", "compose", "spawn"}
SessionFailed == lspAttempt \in AttemptErrors
\* What an accessor would return for u now, with the records as they are now.
ReadValue(u) ==
    LET e == StoreGet(store, u) IN
    [isList |-> e.isList,
     items |-> [i \in 1..Len(e.refs) |-> objs[e.refs[i][1]][e.refs[i][2]]]]
ReadView == [u \in URIs |-> ReadValue(u)]
\* The lists of a store, as the accessors copy them.
ListsOf(st) == [u \in DOMAIN st |-> st[u].refs]

(***************************************************************************)
(* Properties.                                                             *)
(***************************************************************************)

\* C1: for verify, compile, show-model and the whole-project include graph,
\* when a session is available, its custom request fails and the direct
\* path's preconditions hold, apply() raises nothing and what it returns is
\* the direct path's result carrying a via tag that names the direct path.
C1_FallbackTaggedDirect ==
    (/\ pc = "done" /\ ivy_ls /\ SessionFailed
     /\ tool \in PathTools \cup {"includeGraph"}
     /\ tool \in PathTools => onPath
     /\ tool = "includeGraph" => relative_path = None)
    => /\ ret.kind # "raise"
       /\ ret.kind = "json" =>
            /\ ret.value = payload
            /\ Has(ret.value, "via")
            /\ PathUsed(ret.value.via) = "direct"

\* C2: for verify, compile and show-model, with a session available, every
\* step of the direct path (looking the tool up, composing the command,
\* running the child) comes after the custom request was sent and only once
\* the session attempt has failed.
C2_SessionFirst ==
    (tool \in PathTools /\ ivy_ls) =>
        \A i \in 1..Len(trace) :
            trace[i] \in DirectSteps =>
                /\ SessionFailed
                /\ \E j \in 1..(i - 1) : trace[j] = "custom_request"
C2_Witness ==
    /\ pc = "done" /\ tool \in PathTools /\ ivy_ls
    /\ InTrace("spawn") /\ ret.kind = "json"

\* C3: for verify, compile and show-model, a path with the wrong extension
\* or naming no file makes apply() raise the validation error at once, with
\* or without a session: nothing else has happened, no request was sent, no
\* command was composed or run, and no result was built.
C3_ValidationFirst ==
    (/\ tool \in PathTools
     /\ ~EndsWithIvy(relative_path) \/ ~IsFile(relative_path)
     /\ pc # "validate")
    => /\ pc = "done"
       /\ ret.kind = "raise"
       /\ ret.exc = (IF ~EndsWithIvy(relative_path)
                     THEN "ValueError: Expected an .ivy file"
                     ELSE "FileNotFoundError: Ivy file not found")
       /\ trace = <<"validate">>
       /\ request = NoRequest /\ command = <<>> /\ payload = EmptyDict
C3_Witness ==
    /\ pc = "done" /\ tool \in PathTools /\ ivy_ls
    /\ EndsWithIvy(relative_path) /\ ~IsFile(relative_path)
    /\ ret.kind = "raise"

\* C4: a reader that holds the lock has copied, for every uri it has copied,
\* the whole list the store holds for it now; and what an accessor returns is,
\* for one uri, the whole list the store held for it, and for all uris, the
\* whole lists the store held, at the one instant the reader took the lock,
\* whatever the handler did before and after.
C4_AtomicReads ==
    \A r \in Readers :
        /\ rpc[r] \in {"copy", "release"} =>
              \A u \in DOMAIN rres[r] : rres[r][u] = StoreGet(store, u).refs
        /\ rpc[r] = "returned" =>
              IF rarg[r] = None
              THEN rres[r] = ListsOf(snap[r])
              ELSE rres[r] = (rarg[r] :> StoreGet(snap[r], rarg[r]).refs)
C4_Witness ==
    \E r \in Readers :
        /\ rpc[r] = "returned" /\ rarg[r] = None
        /\ DOMAIN rres[r] = URIs
        /\ wpc = "release"
        /\ store # snap[r]

\* C5: whenever the handler is not running, the list cached for a uri is
\* exactly the list of the most recent valid notification for that uri (all
\* of its records, in order, and no others), and a uri with no valid
\* notification has no entry and reads as the empty list.
C5_LatestListCached ==
    wpc = "idle" =>
        \A u \in URIs :
            IF published[u] = 0
            THEN u \notin DOMAIN store /\ ListCopy(StoreGet(store, u)) = <<>>
            ELSE /\ u \in DOMAIN store
                 /\ store[u].refs = RefsOf(published[u], Len(objs[published[u]]))
C5_Witness ==
    /\ wpc = "idle"
    /\ published["u1"] = 2 /\ published["u2"] = 3
    /\ objs[1] # <<>> /\ objs[2] = <<>>
    /\ store["u1"].refs = <<>> /\ store["u2"].refs # <<>>

\* C6: no change a caller makes to a value an accessor returned to it
\* changes what a read of the cache returns.
C6_CallerMutationInvisible == [][CallerMutation => ReadView' = ReadView]_vars

\* C7: when the initialize response lacks textDocumentSync, _start_server
\* raises: "initialized" is never sent, the session is never Ready and no
\* custom request is ever sent on it.
C7_NoSyncNoReady ==
    (spc \in {"validate", "initialized", "returned", "raised"}
       /\ MandatoryCapability \notin capabilities)
    => /\ spc \in {"validate", "raised"}
       /\ spc = "raised" => sessState = "Failed"
       /\ sessState # "Ready"
       /\ \A i \in 1..Len(sent) : sent[i] = "initialize"
C7_Witness ==
    /\ spc = "raised" /\ sessState = "Failed"
    /\ capabilities = OptionalCapabilities

\* C8: on the direct path of verify, compile and show-model, a tool that is
\* not on PATH makes apply() raise the "not installed" error: the tool was
\* looked up once, no command was composed, no child was run and no result
\* was built.
C8_MissingToolRaises ==
    (tool \in PathTools /\ ~onPath /\ InTrace("which"))
    => /\ pc = "done"
       /\ ret = Raise("FileNotFoundError: not installed or not on PATH")
       /\ TimesInTrace("which") = 1
       /\ ~InTrace("compose") /\ ~InTrace("spawn")
       /\ command = <<>> /\ payload = EmptyDict
C8_Witness ==
    /\ pc = "done" /\ tool \in PathTools /\ ~onPath /\ InTrace("which")
    /\ ivy_ls /\ SessionFailed

\* C9: a verify result of the direct path carries parse_warning exactly when
\* the child exited non-zero and no diagnostic was parsed from its output,
\* and then success is false.
C9_ParseWarningIff ==
    (pc = "done" /\ tool = "verify" /\ InTrace("spawn"))
    => /\ Has(payload, "parse_warning") <=>
              (child.return_code # 0 /\ Len(payload.diagnostics) = 0)
       /\ Has(payload, "parse_warning") => payload.success = FALSE
C9_Witness ==
    /\ pc = "done" /\ tool = "verify" /\ InTrace("spawn")
    /\ Has(payload, "parse_warning")
    /\ child.stdout # <<>>

\* C10: every result of verify, compile or show-model carries success and
\* diagnostic_count, and carries parse_warning when the run failed with no
\* structured diagnostics.  Stated for the results this code builds itself
\* from a finished child process; on the session path compile and show-model
\* pass on whatever object the companion process answered.
NoStructuredDiagnostics ==
    IF Has(payload, "diagnostics") THEN Len(payload.diagnostics) = 0
    ELSE _parse_ivy_check_output(RawOutput(child)) = <<>>
C10_ResultsDistinguishable ==
    (pc = "done" /\ tool \in PathTools /\ InTrace("spawn") /\ ret.kind = "json")
    => /\ {"success", "diagnostic_count"} \subseteq DOMAIN payload
       /\ (child.return_code # 0 /\ NoStructuredDiagnostics)
             => Has(payload, "parse_warning")

\* C11: every result of verify, compile, show-model and include-graph carries
\* a via tag, and the tag names the path that built the result: the session
\* exactly when it was built from a custom-request response, the direct path
\* exactly when it was built from a child-process run or a filesystem scan.
C11_ViaNamesPath ==
    (pc = "done" /\ tool \in PathTools \cup {"includeGraph"} /\ ret.kind = "json")
    => /\ Has(payload, "via")
       /\ PathUsed(payload.via) = "session" <=> lspAttempt = "returned"
       /\ PathUsed(payload.via) = "direct" <=> (InTrace("spawn") \/ InTrace("walk"))

\* C12: a diagnostics notification whose payload is no structured object, or
\* whose uri is missing or empty, makes the handler return normally, without
\* taking the lock or raising, and leaves the store and every record as
\* they were.
C12_MalformedDropped ==
    [][\A params \in NotificationParams :
          (~ValidNotification(params) /\ Deliver(params))
          => /\ wpc' = "idle" /\ wret' = "returned"
             /\ store' = store /\ objs' = objs /\ lock' = lock
             /\ published' = published]_vars
C12_Witness ==
    /\ notifs = 2 /\ wpc = "idle" /\ wret = "returned"
    /\ DOMAIN store = {"u1"} /\ published = [u \in URIs |-> IF u = "u1" THEN 1 ELSE 0]
    /\ store["u1"].refs # <<>>

\* C13: during session start the four handlers (client/registerCapability,
\* window/logMessage, $/progress, textDocument/publishDiagnostics) are all
\* registered before the companion process is started and before initialize
\* or any other message is sent to it.
C13_HandlersBeforeStart ==
    (procStarted \/ sent # <<>>)
    => /\ handlers = {HandlerOrder[i] : i \in 1..Len(HandlerOrder)}
       /\ Cardinality(handlers) = 4
       /\ sent # <<>> => procStarted
C13_Witness ==
    /\ procStarted /\ sent = <<"initialize">> /\ spc = "await"
    /\ "textDocument/publishDiagnostics" \in handlers

\* C14: once the initialize response reports textDocumentSync, whatever
\* optional capabilities it reports or lacks, _start_server does not fail;
\* "initialized" is sent at most once, only after the response was received
\* and validated, right after "initialize"; and the session is Ready exactly
\* from the moment "initialized" has been sent.
TimesSent(msg) == Cardinality({i \in 1..Len(sent) : sent[i] = msg})
C14_OptionalNotRequired ==
    /\ MandatoryCapability \in capabilities
         => /\ spc \in {"validate", "initialized", "returned"}
            /\ sessState # "Failed"
            /\ spc = "returned" <=> TimesSent("initialized") = 1
    /\ TimesSent("initialized") <= 1
    /\ TimesSent("initialized") = 1
         => /\ MandatoryCapability \in capabilities
            /\ Len(sent) >= 2 /\ sent[1] = "initialize" /\ sent[2] = "initialized"
    /\ sessState = "Ready" <=> TimesSent("initialized") = 1
C14_Witness ==
    /\ spc = "returned" /\ sessState = "Ready"
    /\ capabilities = {MandatoryCapability}
    /\ sent = <<"initialize", "initialized">>

\* C15: whatever an operation returns, on the session path, the direct path
\* or as an error object, went through the ceiling the caller passed: a
\* serialized result longer than the ceiling is replaced by the "too long"
\* indicator, which holds nothing of the result, and any other result is
\* returned whole.
C15_CeilingApplied ==
    (pc = "done" /\ ret.kind # "raise")
    => IF SerializedLen(payload) >
            (IF max_answer_chars = -1 THEN DefaultMaxAnswerChars ELSE max_answer_chars)
       THEN ret = [kind |-> "too_long", value |-> EmptyDict]
       ELSE ret = [kind |-> "json", value |-> payload]
C15_Witness ==
    /\ pc = "done" /\ tool \in StatusTools /\ ivy_ls /\ SessionFailed
    /\ Has(payload, "error") /\ ret.kind = "too_long"

\* C16: when shutil.which does not find ivy_lsp, constructing the session
\* raises the "not installed" error with its install guidance; no launch
\* command was configured, no process is ever started and no other binary
\* takes its place.  When it is found, the command configured and the
\* executable started are exactly the path found.
C16_CompanionResolved ==
    /\ (sessState # "New" /\ whichResult = None)
         => /\ sessState = "ConstructFailed"
            /\ ctorRaised = ToolNotFound
            /\ launchCmd = None /\ launched = None
            /\ ~procStarted /\ spc = "entry" /\ sent = <<>>
    /\ (sessState # "New" /\ whichResult # None)
         => /\ ctorRaised = None
            /\ launchCmd = whichResult
            /\ procStarted => launched = whichResult
    /\ ~procStarted => launched = None
C16_Witness ==
    /\ sessState = "ConstructFailed" /\ whichResult = None
    /\ ctorRaised = ToolNotFound

\* C17: the parser returns one record for each diagnostic line of the text,
\* holding the file, line number, severity and message the line was written
\* from, in the order of the lines; other lines give no record and the empty
\* text gives the empty list.
RECURSIVE ExpectedRecords(_)
ExpectedRecords(descs) ==
    IF descs = <<>> THEN <<>>
    ELSE (IF Head(descs).wf
          THEN <<[file |-> Head(descs).file, line |-> Head(descs).number.value,
                  severity |-> Head(descs).severity, message |-> Head(descs).message]>>
          ELSE <<>>)
         \o ExpectedRecords(Tail(descs))
C17_ParserExact ==
    ppc = "returned"
    => /\ pres = ExpectedRecords(pdesc)
       /\ ptext = <<>> => pres = <<>>
C17_Witness ==
    /\ ppc = "returned" /\ Len(pdesc) = 2
    /\ ~pdesc[1].wf /\ pdesc[1].raw # <<>>
    /\ pdesc[2].wf /\ pdesc[2].file = <<"a", ":", "b">> /\ Len(pdesc[2].message) > 1
    /\ Len(pres) = 1

\* Views of a document for the scanner's properties: the braces of its code,
\* each with its line, and which of them have no partner.  A closing brace
\* has no partner when every stretch of code that ends with it holds more
\* closing than opening braces; an opening brace has none when every stretch
\* that begins with it holds more opening than closing braces.
RECURSIVE BracesOf(_, _)
BracesOf(codeLines, i) ==
    IF i > Len(codeLines) THEN <<>>
    ELSE LET bs == SelectSeq(codeLines[i], LAMBDA t : t \in {"{", "}"})
         IN [j \in 1..Len(bs) |-> [ch |-> bs[j], line |-> i]]
            \o BracesOf(codeLines, i + 1)
ScannedBraces(lines) == BracesOf([i \in 1..Len(lines) |-> CodeOf(lines[i])], 1)
Opens(b, q, p) == Cardinality({k \in q..p : b[k].ch = "{"})
Closes(b, q, p) == Cardinality({k \in q..p : b[k].ch = "}"})
StrayClosers(b) ==
    {p \in 1..Len(b) : b[p].ch = "}" /\ \A q \in 1..p : Opens(b, q, p) < Closes(b, q, p)}
UnclosedOpeners(b) ==
    {p \in 1..Len(b) :
        b[p].ch = "{" /\ \A q \in p..Len(b) : Opens(b, p, q) > Closes(b, p, q)}
RECURSIVE LinesAt(_, _, _)
LinesAt(b, P, p) ==
    IF p > Len(b) THEN <<>>
    ELSE (IF p \in P THEN <<b[p].line>> ELSE <<>>) \o LinesAt(b, P, p + 1)
FindingsWith(msgs) == SelectSeq(scanDiags, LAMBDA d : d.message \in msgs)
LinesOfFindings(ds) == [i \in 1..Len(ds) |-> ds[i].line]

\* C18: the scanner reports one "Unmatched closing brace" error, at the line
\* of the brace, for each closing brace of the code it scans that has no
\* partner, in order, and no other; so the braces after a stray closer, when
\* they are balanced among themselves, add no error.
C18_StrayCloserOnce ==
    scpc = "returned"
    => LET b == ScannedBraces(source)
           found == FindingsWith({"Unmatched closing brace"})
       IN /\ LinesOfFindings(found) = LinesAt(b, StrayClosers(b), 1)
          /\ \A i \in 1..Len(found) : found[i].severity = "error"
C18_Witness ==
    /\ scpc = "returned"
    /\ source = << <<"#lang">>, <<"}", "{">>, <<"}">> >>
    /\ LinesOfFindings(scanDiags) = <<2>>

\* C19: the scanner reports at most one "Unmatched opening brace" error; it
\* reports one exactly when some opening brace of the code it scans has no
\* partner, and the count in it is the number of such braces.
C19_EofErrorCount ==
    scpc = "returned"
    => LET n == Cardinality(UnclosedOpeners(ScannedBraces(source)))
           found == FindingsWith({"Unmatched opening brace"})
       IN /\ Len(found) <= 1
          /\ Len(found) = 1 <=> n > 0
          /\ Len(found) = 1 => found[1].unclosed = n /\ found[1].severity = "error"
C19_Witness ==
    /\ scpc = "returned"
    /\ source = << <<"{", "{">>, <<"}", "{">> >>
    /\ \E i \in 1..Len(scanDiags) : scanDiags[i].unclosed = 2

\* C20: the scanner reports one header warning, at line 1, when the document
\* does not begin with the header marker after leading blanks and line
\* breaks, and none when it does; and a document that begins with the marker
\* and whose braces outside trailing comments are balanced gets no header
\* and no brace finding.  A trailing comment begins at the first "#" of a
\* line that is not the "#" of a header marker leading the line.
LeadingHeader(lines) ==
    \E i \in 1..Len(lines) : \E j \in 1..Len(lines[i]) :
        /\ lines[i][j] = "#lang"
        /\ \A k \in 1..(j - 1) : lines[i][k] \in Whitespace
        /\ \A h \in 1..(i - 1) : \A k \in 1..Len(lines[h]) : lines[h][k] \in Whitespace
OutsideComment(line) ==
    IF StartsWithLang(LStripLine(line))
    THEN <<"#lang">> \o BeforeHash(Tail(LStripLine(line)))
    ELSE BeforeHash(line)
BalancedOutsideComments(lines) ==
    LET b == BracesOf([i \in 1..Len(lines) |-> OutsideComment(lines[i])], 1)
    IN StrayClosers(b) = {} /\ UnclosedOpeners(b) = {}
C20_HeaderWarning ==
    scpc = "returned"
    => LET header == FindingsWith({"Missing '#lang ivy1.7' header"}) IN
       IF LeadingHeader(source) THEN header = <<>>
       ELSE Len(header) = 1 /\ header[1].line = 1 /\ header[1].severity = "warning"
C20_HeaderAndBalance ==
    /\ C20_HeaderWarning
    /\ (scpc = "returned" /\ LeadingHeader(source) /\ BalancedOutsideComments(source))
         => FindingsWith({"Missing '#lang ivy1.7' header", "Unmatched closing brace",
                          "Unmatched opening brace"}) = <<>>

\* Views of a document for the include part: a line is an include directive
\* when it begins with the keyword, goes on with blanks or tabs and then
\* with a module name; the module is that name.
DirectiveLine(line) ==
    /\ Len(line) >= 3 /\ line[1] = "include" /\ line[2] \in Whitespace
    /\ SkipWs(line, 2) <= Len(line) /\ line[SkipWs(line, 2)] \in Words
ModuleOf(line) == line[SkipWs(line, 2)]
UnresolvedAt(i) ==
    SelectSeq(scanDiags, LAMBDA d : d.message = "Unresolved include" /\ d.line = i)
DirectivesReported ==
    \A i \in 1..Len(source) :
        DirectiveLine(source[i]) =>
            IF ModuleOf(source[i]) \in SiblingModules
            THEN UnresolvedAt(i) = <<>>
            ELSE /\ Len(UnresolvedAt(i)) = 1
                 /\ UnresolvedAt(i)[1].module = ModuleOf(source[i])
                 /\ UnresolvedAt(i)[1].severity = "warning"
\* the line before line i is the keyword alone, followed by nothing but blanks
KeywordAlone(line) ==
    /\ line # <<>> /\ line[1] = "include" /\ SkipWs(line, 2) > Len(line)
Dangling(lines, i) ==
    /\ i > 1
    /\ \E h \in 1..(i - 1) :
          /\ KeywordAlone(lines[h])
          /\ \A k \in (h + 1)..(i - 1) : SkipWs(lines[k], 1) > Len(lines[k])
NoDanglingKeyword(lines) ==
    \A i \in 1..Len(lines) : DirectiveLine(lines[i]) => ~Dangling(lines, i)

\* C21: for every include directive of the document the scanner reports one
\* unresolved-include warning, at the line of the directive and naming its
\* module, when the module has no file in the directory of the document, and
\* none at that line when it has one.
C21_CompleteDirectives ==
    (scpc = "returned" /\ NoDanglingKeyword(source)) => DirectivesReported
C21_EveryDirective ==
    /\ C21_CompleteDirectives
    /\ scpc = "returned" => DirectivesReported

\* Views of a project for the include graph: the modules a file names in its
\* directives, whether a module has a file, and the modules reached from a
\* set of modules by following the directives of the files that were read.
ExpectedIncludes(file) ==
    IF ~file.readable THEN <<>>
    ELSE LET ds == SelectSeq(file.lines, DirectiveLine)
         IN [i \in 1..Len(ds) |-> ModuleOf(ds[i])]
FilesOfModule(project, mod) == {f \in DOMAIN project : EndsWithIvy(f) /\ BaseName(f) = mod}
HasFile(project, mod) == FilesOfModule(project, mod) # {}
IncludedByModule(project, mod) ==
    UNION {RangeOf(ExpectedIncludes(project[f])) : f \in FilesOfModule(project, mod)}
RECURSIVE ReachFrom(_, _)
ReachFrom(project, S) ==
    LET further == S \cup UNION {IncludedByModule(project, mod) : mod \in S}
    IN IF further = S THEN S ELSE ReachFrom(project, further)
\* no file of the project has the keyword alone on a line with text below it
KeywordLast(lines) ==
    \A h \in 1..Len(lines) :
        KeywordAlone(lines[h]) =>
            \A k \in (h + 1)..Len(lines) : SkipWs(lines[k], 1) > Len(lines[k])
KeywordNeverLeads(project) ==
    \A f \in DOMAIN project : project[f].readable => KeywordLast(project[f].lines)
DirectOf(project, p) ==
    IF p \in DOMAIN project THEN ExpectedIncludes(project[p]) ELSE <<>>
ReachableOf(project, p) == ReachFrom(project, RangeOf(DirectOf(project, p)))

C23_SessionResultOnly ==
    (tool \in PathTools \cup {"includeGraph"} /\ lspAttempt = "returned")
    => /\ pc = "done"
       /\ \A i \in 1..Len(trace) : trace[i] \notin DirectSteps \cup {"walk"}
       /\ command = <<>> /\ child = NoChild
       /\ TimesInTrace("custom_request") = 1
       /\ ret.kind # "raise"
       /\ ret = _limit_length(payload, max_answer_chars)
       /\ Has(payload, "via") /\ PathUsed(payload.via) = "session"
C23_Witness ==
    /\ pc = "done" /\ tool = "compile" /\ ivy_ls /\ ~onPath
    /\ lspAttempt = "returned" /\ ret.kind = "json"

\* C24: with a session available, the include-graph tool scans the
\* filesystem only after it has sent the custom request and the session
\* attempt has failed, for a query with a path as for one without.
C24_GraphSessionFirst ==
    (tool = "includeGraph" /\ ivy_ls /\ InTrace("walk"))
    => /\ SessionFailed
       /\ \E i \in 1..Len(trace), j \in 1..Len(trace) :
             i < j /\ trace[i] = "custom_request" /\ trace[j] = "walk"

\* C25: a ValueError raised inside the session attempt reaches the caller:
\* apply() raises it, and no step of the direct path is taken after it.
C25_ValidationPropagates ==
    (tool \in PathTools \cup {"includeGraph"} /\ lspAttempt \in ValidationErrors)
    => /\ pc = "done"
       /\ ret = Raise(lspAttempt)
       /\ \A i \in 1..Len(trace) : trace[i] \notin DirectSteps \cup {"walk"}

\* C26: the custom request of verify, compile and show-model carries the uri
\* of the document, the isolate whenever the caller gave one, and for compile
\* the target.
C26_RequestCarriesParameters ==
    (tool \in PathTools /\ request # NoRequest)
    => /\ Has(request.params, "uri") /\ request.params.uri = relative_path
       /\ isolate # None
            => Has(request.params, "isolate") /\ request.params.isolate = isolate
       /\ tool = "compile"
            => Has(request.params, "target") /\ request.params.target = target

\* C27: when verify's custom request returns, the diagnostics of the result
\* are the list the response supplied when it supplied one, and the records
\* parsed from its output lines when it supplied none.
C27_SuppliedDiagnosticsKept ==
    [][\A resp \in Responses :
          (tool = "verify" /\ ~SessionRaises("verify", resp)
             /\ SessionRequestReturns(resp))
          => payload'.diagnostics =
                IF Has(resp.body, "diagnostics") THEN resp.body.diagnostics
                ELSE _parse_ivy_check_output(Get(resp.body, "output", <<>>))]_vars

\* C28: a tool called with a path that has the wrong extension or names no
\* file raises the validation error and returns nothing: verify, compile and
\* show-model, the include graph of one file, the diagnostics of one file.
C28_TargetValidated ==
    (/\ pc = "done" /\ tool \in PathTools \cup {"includeGraph", "diagnostics"}
     /\ relative_path # None
     /\ ~EndsWithIvy(relative_path) \/ ~IsFile(relative_path))
    => /\ ret.kind = "raise"
       /\ ret.exc = _validate_ivy_path(relative_path)

\* C29: the lock is held by the handler only while it stores one list and by
\* a tool thread only while an accessor copies, never by a thread that has a
\* custom request or a child process in flight; so whatever the threads do,
\* the handler and every thread waiting for the lock find it free again and
\* again: nobody waits for a lock that is held for ever.
LockHeldInsideWithOnly ==
    /\ lock \in {Free, Writer} \cup Readers
    /\ lock = Writer <=> wpc \in {"store", "release"}
    /\ \A r \in Readers :
          /\ lock = r <=> rpc[r] \in {"copy", "release", "release_raise"}
          /\ rpc[r] \in {"request", "child"} => lock # r
C29_LockHeldBriefly ==
    /\ []LockHeldInsideWithOnly
    /\ []<>(wpc # "acquire" \/ lock = Free)
    /\ \A r \in Readers : []<>(rpc[r] # "acquire" \/ lock = Free)
C29_Witness ==
    /\ wpc = "acquire" /\ lock # Free /\ lock # Writer
    /\ \E r \in Readers : lock = r /\ rarg[r] = None /\ rres[r] # EmptyDict

\* C30: the store belongs to one session: a step changes what the accessors
\* of a session return only if it is a run of that session's own
\* store_diagnostics handler; a notification delivered to another session,
\* and any accessor call, leave them as they were.
ReadsOf(s) ==
    <<get_all_stored_diagnostics(s), [u \in URIs |-> get_stored_diagnostics(s, u)]>>
C30_InstanceScoped ==
    [][\A s \in Sessions :
          ReadsOf(s)' # ReadsOf(s) => ihandled'[s] = ihandled[s] + 1]_vars
C30_Witness ==
    /\ ihandled[1] > 0 /\ ihandled[2] > 0
    /\ get_stored_diagnostics(1, "u1") # <<>>
    /\ get_stored_diagnostics(2, "u1") = <<>>
    /\ "u2" \in DOMAIN get_all_stored_diagnostics(2)
    /\ iret.session = 2 /\ iret.arg = "u1" /\ iret.value["u1"] = <<>>

\* C31: when every custom request returns or raises and every child process
\* exits, every invocation of verify, compile or show-model comes to its
\* end with exactly one outcome, a result or an error raised by the
\* validation of the path or the lookup of the command-line tool; after a
\* request that timed out the invocation is on its direct path, and its
\* outcome is never the timeout.
PreconditionErrors ==
    {_validate_ivy_path(p) : p \in Paths} \cup {_require_ivy_tool(f) : f \in BOOLEAN}
OneOutcome ==
    tool \in PathTools =>
        /\ pc = "done" <=> ret # NoReturn
        /\ ret.kind \in {"none", "json", "too_long", "raise"}
        /\ ret.kind = "raise" => ret.exc \in PreconditionErrors \ {None}
TimeoutRecovered ==
    (tool \in PathTools /\ lspAttempt = "timeout") =>
        /\ pc \in {"require_tool", "compose", "spawn", "done"}
        /\ pc = "done" => InTrace("which")
        /\ pc = "done" /\ onPath => InTrace("spawn") /\ ret.kind # "raise"
C31_InvocationTerminates ==
    /\ []OneOutcome
    /\ []TimeoutRecovered
    /\ (tool \in PathTools) ~> (pc = "done")
C31_Witness ==
    /\ tool = "verify" /\ lspAttempt = "timeout" /\ pc = "done"
    /\ ret.kind = "json" /\ ret.value.via = "cli" /\ InTrace("spawn")

\* C33: in a per-file result of the filesystem scan the includes list has
\* one entry for each include directive of the file, in the order of the
\* directives; the entry of a module that has a file among the scanned
\* files carries the path of such a file, the entry of a module that has
\* none is kept and carries no path.
IncludesListed ==
    LET direct == DirectOf(gproject, gpath) IN
    /\ Len(gres.includes) = Len(direct)
    /\ \A i \in 1..Len(direct) : gres.includes[i].module = direct[i]
    /\ \A i \in 1..Len(gres.includes) :
          gres.includes[i].resolved_path # None
          <=> HasFile(gproject, gres.includes[i].module)
C33_DirectivesListed ==
    (gpc = "returned" /\ gpath # None /\ KeywordNeverLeads(gproject)) => IncludesListed
C33_EveryDirectiveListed ==
    (gpc = "returned" /\ gpath # None) => IncludesListed

\* C32: the loop that collects the transitive includes comes to its end for
\* every project, with include cycles and with a file that includes itself,
\* and no module name passes the "already seen" test twice: each is added,
\* and its file's includes pushed, at most once; the names added are the
\* ones the result reports.
NoRepeat(s) == \A i, j \in 1..Len(s) : s[i] = s[j] => i = j
ExpandedOnce ==
    /\ NoRepeat(texpanded)
    /\ RangeOf(texpanded) = tseen
    /\ gpc = "returned" =>
          /\ gres.transitive_includes = Sorted(tseen)
          /\ tseen = Transitive(gproject, Get(Graph(gproject), gpath, <<>>), {})
C32_ClosureTerminates ==
    /\ []ExpandedOnce
    /\ (gpc = "loop") ~> (gpc = "returned")
C32_Witness ==
    /\ gpc = "returned"
    /\ gproject = [f \in {"a.ivy", "b.ivy"} |->
                     IF f = "a.ivy"
                     THEN FileWith(<< <<"include", " ", "a">>, <<"include", " ", "b">> >>)
                     ELSE FileWith(<< <<"include", " ", "a">> >>)]
    /\ texpanded = <<"b", "a">>
    /\ gres.transitive_includes = <<"a", "b">>

\* C34: when the diagnostics tool reads the cache for a document whose last
\* valid notification brought a list and has been handled, what it returns
\* holds exactly the records of that notification, in order, and
\* diagnostic_count is their number; without a session it returns an empty
\* list with server_active false; and a feature-status request that raised
\* only sends the tool on to the cache, which it reads as it would have.
\* the uri under which the server publishes the diagnostics of a file
DocumentOf(p) == IF p = "model.ivy" THEN "u1" ELSE "u2"
LastPublished(u) ==
    IF published[u] = 0 THEN <<>> ELSE RefsOf(published[u], Len(objs[published[u]]))
Handled(u) == wpc = "idle" \/ wparams.uri # u
ReadsOneFile ==
    /\ tool = "diagnostics" /\ pc = "read_cache" /\ pc' = "done"
    /\ relative_path # None
C34_CachedListReturned ==
    [][/\ (ReadsOneFile /\ ivy_ls /\ Handled(DocumentOf(relative_path))
            /\ StoreGet(store, DocumentOf(relative_path)).isList)
          => /\ ret'.kind # "raise"
             /\ ret'.kind = "json" =>
                  /\ ret'.value.diagnostics = LastPublished(DocumentOf(relative_path))
                  /\ ret'.value.diagnostic_count = Len(ret'.value.diagnostics)
                  /\ ret'.value.server_active
       /\ (ReadsOneFile /\ ~ivy_ls)
          => /\ ret'.kind # "raise"
             /\ ret'.kind = "json" =>
                  /\ ret'.value.diagnostics = <<>>
                  /\ ret'.value.diagnostic_count = 0
                  /\ ~ret'.value.server_active
       /\ (tool = "diagnostics" /\ pc = "lsp" /\ pc' # "lsp")
          => /\ pc' = "read_cache"
             /\ ret' = NoReturn
             /\ store' = store]_vars
C34_Witness ==
    /\ tool = "diagnostics" /\ pc = "done" /\ relative_path = "model.ivy"
    /\ ivy_ls /\ lspAttempt \in RequestErrors
    /\ ret.kind = "json"
    /\ ret.value.diagnostics = <<<<1, 1>>>> /\ ret.value.diagnostic_count = 1
    /\ objs[1] = <<ErrorDiag>> /\ published["u1"] = 1

\* C36: every value in the diagnostics store is a list: whatever the
\* diagnostics field of a notification with a non-empty uri holds, the
\* handler returns without raising and no accessor call raises afterwards.
C36_StoredValuesAreLists ==
    /\ \A u \in DOMAIN store : store[u].isList
    /\ wret # "raised TypeError"
    /\ \A r \in Readers : rpc[r] # "release_raise"

\* C35: server status, list test scopes and set test scope end without
\* raising and without looking up, composing or running a command: with no
\* session they send no request and return an error object with
\* server_active false; with a session they send their request once, and
\* return an error object with server_active true when it raised (or when its
\* response is no object that could be marked), and otherwise the response
\* with server_active set to true.
StatusOutcome ==
    /\ ret.kind # "raise"
    /\ ret.kind = "json" => ret.value = payload
    /\ child = NoChild /\ command = <<>>
    /\ \A i \in 1..Len(trace) : trace[i] \notin DirectSteps \cup {"walk", "read_cache"}
    /\ IF ~ivy_ls
       THEN /\ request = NoRequest /\ ~InTrace("custom_request")
            /\ DOMAIN payload = {"server_active", "error"}
            /\ ~payload.server_active
       ELSE /\ TimesInTrace("custom_request") = 1
            /\ request.method = Method(tool)
            /\ lspAttempt \in RequestErrors \cup {"malformed"} =>
                  /\ DOMAIN payload = {"server_active", "error"}
                  /\ payload.server_active
            /\ lspAttempt \notin RequestErrors \cup {"malformed"} =>
                  /\ lspAttempt = "returned"
                  /\ Has(payload, "server_active") /\ payload.server_active
                  /\ "error" \notin DOMAIN payload
                  /\ \E resp \in Responses :
                        /\ resp.kind = "dict"
                        /\ DOMAIN payload = DOMAIN resp.body \cup {"server_active"}
                        /\ \A k \in DOMAIN resp.body : payload[k] = resp.body[k]
C35_StatusToolsNeverRaise ==
    (tool \in StatusTools /\ pc = "done") => StatusOutcome
C35_Witness ==
    /\ tool = "setActiveTest" /\ pc = "done" /\ ivy_ls
    /\ request.params = [testFile |-> "model.ivy"]
    /\ lspAttempt = "returned"
    /\ ret.kind = "json" /\ ret.value.server_active /\ Has(ret.value, "success")

\* C37: in every result of verify, diagnostic_count is the length of the
\* diagnostics list and the sum of error_count and warning_count, which
\* count the records of each severity in the list.
CountsAgree(d) ==
    /\ d.diagnostic_count = Len(d.diagnostics)
    /\ d.error_count = CountSeverity(d.diagnostics, "error")
    /\ d.warning_count = CountSeverity(d.diagnostics, "warning")
    /\ d.diagnostic_count = d.error_count + d.warning_count
VerifyResult == tool = "verify" /\ pc = "done" /\ ret.kind # "raise"
C37_DirectCountsAgree ==
    (VerifyResult /\ payload.via = "cli") => CountsAgree(payload)
C37_CountsAgree ==
    VerifyResult => CountsAgree(payload)
=============================================================================
